---------------------------- MODULE Spec2Model ----------------------------
(***************************************************************************)
(* A model of the nostr-sync-relay: the SQLite store (src/src/db.ts), the  *)
(* filter matcher (filters.ts, src/unnamed/part_001) and the connection    *)
(* handlers with the broadcaster (handlers.ts, src/unnamed/part_002).      *)
(*                                                                         *)
(* Representation choices:                                                 *)
(*   - an event id is a natural number: validated ids are 64 lowercase hex *)
(*     characters, so JavaScript's string `<` on two ids is the numeric    *)
(*     order of the hex values;                                            *)
(*   - an optional value is a sequence: << >> for undefined/null, <<v>>    *)
(*     for a value v;                                                      *)
(*   - a JavaScript Map is a sequence of entries in insertion order;       *)
(*   - the relay runs on one thread: every handler is one atomic step,     *)
(*     except handleEvent, which suspends once at `await validateEvent`.   *)
(***************************************************************************)
EXTENDS Integers, Sequences, FiniteSets, TLC

VARIABLES
    events,          \* table events: rows [seq, event]
    event_tags,      \* table event_tags: rows [event_id, ord, tag_name, tag_value]
    sqlite_sequence, \* AUTOINCREMENT bookkeeping: largest seq ever assigned
    clients,         \* Map ws -> ClientState, the connected clients
    closed,          \* the sockets that have been closed
    pending,         \* handleEvent calls suspended at `await validateEvent`, FIFO
    out,             \* per socket, the frames the relay has sent on it
    nframes,         \* number of client frames received so far
    budget,          \* bound of the run: the number of client frames it may receive
    assigned,        \* history: the inserts so far, in order, [seq, event]
    mark,            \* history: Len(out[ws]) before the last handler step
    last,            \* history: what the last handler step did
    reg              \* history: where each change-feed subscription was registered

vars == << events, event_tags, sqlite_sequence, clients, closed, pending, out,
           nframes, budget, assigned, mark, last, reg >>

-----------------------------------------------------------------------------
(* Generic helpers *)

Some(v) == << v >>

None == << >>

IsSome(o) == o # << >>

Range(s) == { s[i] : i \in 1..Len(s) }

SetMax(S) == IF S = {} THEN 0 ELSE CHOOSE x \in S : \A y \in S : y <= x

-----------------------------------------------------------------------------
(* types.ts: kind classes *)

KIND_RANGES == [ SYNCABLE_min |-> 40000, SYNCABLE_max |-> 49999, PURGE |-> 49999 ]

isRegularKind(kind) ==
    kind = 1 \/ kind = 2 \/ (kind >= 4 /\ kind < 45) \/ (kind >= 1000 /\ kind < 10000)

isReplaceableKind(kind) == kind = 0 \/ kind = 3 \/ (kind >= 10000 /\ kind < 20000)

\* a faulty variant of isEphemeralKind: the last kind of the range is left out
isEphemeralBelow29999(kind) == kind >= 20000 /\ kind < 29999

isEphemeralKind(kind) == kind >= 20000 /\ kind < 30000

\* a faulty variant of isAddressableKind: the syncable range is taken for addressable
isAddressableThrough49999(kind) == kind >= 30000 /\ kind < 50000

isAddressableKind(kind) == kind >= 30000 /\ kind < 40000

isSyncableKind(kind) == kind >= 40000 /\ kind < 50000

isPurgeKind(kind) == kind = KIND_RANGES.PURGE

-----------------------------------------------------------------------------
(* Strings.  TLA+ strings are atomic, so the characters of the strings that *)
(* the model parses are spelled out here; ParseInt works on the characters. *)

Chars ==
    [ s \in { "40001", "40002", "49999", "39999", "40001x", "x40001", "abc", "", "1" } |->
        CASE s = "40001"  -> << "4", "0", "0", "0", "1" >>
          [] s = "40002"  -> << "4", "0", "0", "0", "2" >>
          [] s = "49999"  -> << "4", "9", "9", "9", "9" >>
          [] s = "39999"  -> << "3", "9", "9", "9", "9" >>
          [] s = "40001x" -> << "4", "0", "0", "0", "1", "x" >>
          [] s = "x40001" -> << "x", "4", "0", "0", "0", "1" >>
          [] s = "abc"    -> << "a", "b", "c" >>
          [] s = ""       -> << >>
          [] s = "1"      -> << "1" >> ]

DigitValue ==
    [ c \in { "0", "1", "2", "3", "4", "5", "6", "7", "8", "9" } |->
        CASE c = "0" -> 0 [] c = "1" -> 1 [] c = "2" -> 2 [] c = "3" -> 3
          [] c = "4" -> 4 [] c = "5" -> 5 [] c = "6" -> 6 [] c = "7" -> 7
          [] c = "8" -> 8 [] c = "9" -> 9 ]

RECURSIVE DigitPrefix(_, _, _)
\* value of the longest prefix of decimal digits of cs from position i on, after acc
DigitPrefix(cs, i, acc) ==
    IF i > Len(cs) \/ cs[i] \notin DOMAIN DigitValue THEN acc
    ELSE DigitPrefix(cs, i + 1, acc * 10 + DigitValue[cs[i]])

\* parseInt(s, 10) for a string without sign or leading blanks: NaN (None) when
\* the string does not start with a digit, else the value of its digit prefix
parseInt(s) ==
    LET cs == Chars[s]
    IN  IF Len(cs) = 0 \/ cs[1] \notin DOMAIN DigitValue THEN None
        ELSE Some(DigitPrefix(cs, 1, 0))

\* /^[a-zA-Z]$/
SingleLetters ==
    { "a", "b", "c", "d", "e", "f", "g", "h", "i", "j", "k", "l", "m",
      "n", "o", "p", "q", "r", "s", "t", "u", "v", "w", "x", "y", "z",
      "A", "B", "C", "D", "E", "F", "G", "H", "I", "J", "K", "L", "M",
      "N", "O", "P", "Q", "R", "S", "T", "U", "V", "W", "X", "Y", "Z" }

-----------------------------------------------------------------------------
(* Events.  A tag is a sequence of strings (possibly empty); content and    *)
(* sig take part in validation only, which is an input of the model.        *)

Ev(id, pubkey, created_at, kind, tags) ==
    [ id |-> id, pubkey |-> pubkey, created_at |-> created_at, kind |-> kind,
      tags |-> tags ]

\* event.tags.find((t) => t[0] === name)?.[1] ?? null
FirstTagValue(event, name) ==
    LET idx == { i \in 1..Len(event.tags) :
                    Len(event.tags[i]) >= 1 /\ event.tags[i][1] = name }
    IN  IF idx = {} THEN None
        ELSE LET t == event.tags[CHOOSE i \in idx : \A j \in idx : i <= j]
             IN  IF Len(t) >= 2 THEN Some(t[2]) ELSE None

getDTagValue(event) == FirstTagValue(event, "d")

getTagValue(event, tagName) == FirstTagValue(event, tagName)

-----------------------------------------------------------------------------
(* db.ts: the store.  A database value is a record of the two tables and    *)
(* the AUTOINCREMENT counter; the operators below return the new database.  *)

DB == [ events |-> events, event_tags |-> event_tags,
        sqlite_sequence |-> sqlite_sequence ]

\* ORDER BY created_at DESC, id ASC (ids are unique in the table)
OrderedBefore(a, b) ==
    a.created_at > b.created_at \/ (a.created_at = b.created_at /\ a.id <= b.id)

\* ... ORDER BY created_at DESC, id ASC LIMIT 1, as an optional event
FirstInOrder(S) ==
    IF S = {} THEN None
    ELSE Some(CHOOSE a \in S : \A b \in S : OrderedBefore(a, b))

RECURSIVE SortEvents(_)
\* the events of S as a list in (created_at desc, id asc) order
SortEvents(S) ==
    IF S = {} THEN << >>
    ELSE LET a == CHOOSE x \in S : \A y \in S : OrderedBefore(x, y)
         IN  << a >> \o SortEvents(S \ { a })

\* the rows of S as a list in ascending seq order (seq is the primary key)
SortRows(S) ==
    [ i \in 1..Cardinality(S) |->
        CHOOSE r \in S : Cardinality({ x \in S : x.seq < r.seq }) = i - 1 ]

\* the first n elements of a list (SQL LIMIT n)
Limit(s, n) == SubSeq(s, 1, IF n < Len(s) THEN n ELSE Len(s))

StoredEvents(D) == { r.event : r \in D.events }

StoredIds(D) == { r.event.id : r \in D.events }

\* SELECT seq FROM events WHERE id = ?
existingById(D, id) == { r \in D.events : r.event.id = id }

\* SELECT id, created_at FROM events WHERE pubkey = ? AND kind = ? ORDER BY ... LIMIT 1
existingReplaceable(D, event) ==
    FirstInOrder({ e \in StoredEvents(D) :
                     e.pubkey = event.pubkey /\ e.kind = event.kind })

\* SELECT e.id, e.created_at FROM events e JOIN event_tags t ON e.id = t.event_id
\* WHERE e.pubkey = ? AND e.kind = ? AND t.tag_name = 'd' AND t.tag_value = ? ...
JoinOnDTag(D, pubkey, kind, value) ==
    { e \in StoredEvents(D) :
        /\ e.pubkey = pubkey
        /\ e.kind = kind
        /\ \E t \in D.event_tags :
              t.event_id = e.id /\ t.tag_name = "d" /\ t.tag_value = value }

existingAddressable(D, event) ==
    LET dValue == getDTagValue(event)
    IN  FirstInOrder(JoinOnDTag(D, event.pubkey, event.kind,
                                IF IsSome(dValue) THEN dValue[1] ELSE ""))

\* "Keep the newer one, or if same timestamp, the one with lower id"
existingWins(existing, event) ==
    \/ existing.created_at > event.created_at
    \/ (existing.created_at = event.created_at /\ existing.id < event.id)

\* a faulty variant of deleteEvent: the DELETE FROM events statement is missing
deleteEventTagsOnly(D, id) ==
    [ D EXCEPT !.event_tags = { t \in D.event_tags : t.event_id # id } ]

deleteEvent(D, id) ==
    [ D EXCEPT !.event_tags = { t \in D.event_tags : t.event_id # id },
               !.events = { r \in D.events : r.event.id # id } ]

\* a faulty variant of NextSeq: seq INTEGER PRIMARY KEY without AUTOINCREMENT, one more
\* than the largest rowid the table holds now
NextSeqOfTable(D) == SetMax({ r.seq : r \in D.events }) + 1

\* seq INTEGER PRIMARY KEY AUTOINCREMENT: one more than the largest rowid the
\* table has ever held
NextSeq(D) == SetMax({ r.seq : r \in D.events } \cup { D.sqlite_sequence }) + 1

\* the tags storeEvent indexes: a single ASCII letter with a value
isIndexable(tag) == Len(tag) >= 2 /\ tag[1] \in SingleLetters

tagRows(event) ==
    { [ event_id |-> event.id, ord |-> i, tag_name |-> event.tags[i][1],
        tag_value |-> event.tags[i][2] ] :
      i \in { j \in 1..Len(event.tags) : isIndexable(event.tags[j]) } }

\* INSERT INTO events ...; SELECT last_insert_rowid(); INSERT INTO event_tags ...
\* fault names the statement that throws: "none", "events" (the INSERT INTO
\* events) or "tags" (the first INSERT INTO event_tags, if there is one)
insertEvent(D, event, fault) ==
    LET seq == NextSeq(D)
        rowIn == [ D EXCEPT !.events = @ \cup { [ seq |-> seq, event |-> event ] },
                            !.sqlite_sequence = seq ]
    IN  IF fault = "events"
          THEN [ db |-> D, success |-> FALSE, message |-> "error: storage", seq |-> None ]
        ELSE IF fault = "tags" /\ tagRows(event) # {}
          THEN [ db |-> rowIn, success |-> FALSE, message |-> "error: storage",
                 seq |-> None ]
        ELSE [ db |-> [ rowIn EXCEPT !.event_tags = @ \cup tagRows(event) ],
               success |-> TRUE, message |-> "", seq |-> Some(seq) ]

Duplicate(D, why) == [ db |-> D, success |-> TRUE, message |-> why, seq |-> None ]

storeEvent(D, event, fault) ==
    IF isEphemeralKind(event.kind)
      THEN [ db |-> D, success |-> TRUE, message |-> "", seq |-> None ]
    ELSE IF existingById(D, event.id) # {}
      THEN Duplicate(D, "duplicate: already have this event")
    ELSE IF isReplaceableKind(event.kind)
      THEN LET ex == existingReplaceable(D, event)
           IN  IF IsSome(ex) /\ existingWins(ex[1], event)
                 THEN Duplicate(D, "duplicate: have a newer version of this replaceable event")
               ELSE insertEvent(IF IsSome(ex) THEN deleteEvent(D, ex[1].id) ELSE D,
                                event, fault)
    ELSE IF isAddressableKind(event.kind)
      THEN LET ex == existingAddressable(D, event)
           IN  IF IsSome(ex) /\ existingWins(ex[1], event)
                 THEN Duplicate(D, "duplicate: have a newer version of this addressable event")
               ELSE insertEvent(IF IsSome(ex) THEN deleteEvent(D, ex[1].id) ELSE D,
                                event, fault)
    ELSE insertEvent(D, event, fault)

RECURSIVE deleteAll(_, _)
deleteAll(D, ids) ==
    IF ids = {} THEN D
    ELSE LET id == CHOOSE x \in ids : TRUE
         IN  deleteAll(deleteEvent(D, id), ids \ { id })

\* a faulty variant of purgeDocument: .get() instead of .all(), one revision is deleted
purgeDocumentFirst(D, pubkey, kind, docId) ==
    LET found == FirstInOrder(JoinOnDTag(D, pubkey, kind, docId))
    IN  [ db |-> IF IsSome(found) THEN deleteEvent(D, found[1].id) ELSE D,
          success |-> TRUE, deletedCount |-> Len(found) ]

purgeDocument(D, pubkey, kind, docId) ==
    LET ids == { e.id : e \in JoinOnDTag(D, pubkey, kind, docId) }
    IN  [ db |-> deleteAll(D, ids), success |-> TRUE, deletedCount |-> Cardinality(ids) ]

\* SELECT MAX(seq) as maxSeq FROM events; maxSeq ?? 0
getLastSeq(D) == SetMax({ r.seq : r \in D.events })

-----------------------------------------------------------------------------
(* filters.ts.  A filter is a record: ids, authors, kinds are sets (empty   *)
(* for an absent or empty array); since, until, limit are optional; tags is *)
(* a function from the letters X of its "#X" keys to their value sets.      *)

Filter(ids, authors, kinds, since, until, limit, tags) ==
    [ ids |-> ids, authors |-> authors, kinds |-> kinds, since |-> since,
      until |-> until, limit |-> limit, tags |-> tags ]

NoTags == [ x \in {} |-> {} ]

\* a faulty variant of eventTagValues: find() instead of filter(), only the first tag
\* of that name counts
eventTagValuesFirst(event, tagName) ==
    IF IsSome(FirstTagValue(event, tagName)) THEN { FirstTagValue(event, tagName)[1] }
    ELSE {}

\* event.tags.filter((tag) => tag[0] === tagName).map((tag) => tag[1]).filter(defined)
eventTagValues(event, tagName) ==
    { event.tags[i][2] :
        i \in { j \in 1..Len(event.tags) :
                  Len(event.tags[j]) >= 2 /\ event.tags[j][1] = tagName } }

matchesFilter(event, filter) ==
    /\ filter.ids # {} => event.id \in filter.ids
    /\ filter.authors # {} => event.pubkey \in filter.authors
    /\ filter.kinds # {} => event.kind \in filter.kinds
    /\ IsSome(filter.since) => ~(event.created_at < filter.since[1])
    /\ IsSome(filter.until) => ~(event.created_at > filter.until[1])
    /\ \A x \in DOMAIN filter.tags :
          filter.tags[x] # {} =>
              \E v \in filter.tags[x] : v \in eventTagValues(event, x)

\* OR across filters
matchesFilters(event, filters) ==
    \E i \in 1..Len(filters) : matchesFilter(event, filters[i])

\* the structural checks of validateFilter that a model filter can fail
validateFilter(filter) ==
    IF IsSome(filter.limit) /\ filter.limit[1] < 0
      THEN Some("limit must be a non-negative integer")
    ELSE IF \E x \in DOMAIN filter.tags : x \notin SingleLetters
      THEN Some("tag filters must be single letters (a-z, A-Z)")
    ELSE None

-----------------------------------------------------------------------------
(* db.ts: queries *)

\* the WHERE clause queryEvents builds for one filter
whereClause(D, filter) ==
    { e \in StoredEvents(D) :
        /\ filter.ids # {} => e.id \in filter.ids
        /\ filter.authors # {} => e.pubkey \in filter.authors
        /\ filter.kinds # {} => e.kind \in filter.kinds
        /\ IsSome(filter.since) => e.created_at >= filter.since[1]
        /\ IsSome(filter.until) => e.created_at <= filter.until[1]
        /\ \A x \in DOMAIN filter.tags :
              filter.tags[x] # {} =>
                  \E t \in D.event_tags :
                      /\ t.event_id = e.id
                      /\ t.tag_name = x
                      /\ t.tag_value \in filter.tags[x] }

\* a faulty variant of selectFilter: the LIMIT clause is left out
selectFilterUnlimited(D, filter) == SortEvents(whereClause(D, filter))

\* a faulty variant of selectFilter: a limit of 0 adds no LIMIT clause
selectFilterFalsyLimit(D, filter) ==
    LET rows == SortEvents(whereClause(D, filter))
    IN  IF IsSome(filter.limit) /\ filter.limit[1] # 0
          THEN Limit(rows, filter.limit[1])
        ELSE rows

\* SELECT DISTINCT ... WHERE ... ORDER BY e.created_at DESC, e.id ASC LIMIT n
selectFilter(D, filter) ==
    LET rows == SortEvents(whereClause(D, filter))
    IN  IF IsSome(filter.limit) THEN Limit(rows, filter.limit[1]) ELSE rows

RECURSIVE queryEventsAppended(_, _)
\* a faulty variant of queryEvents: the rows of the filters are appended, without
\* the map keyed by id and without the final sort
queryEventsAppended(D, filters) ==
    IF filters = << >> THEN << >>
    ELSE selectFilter(D, Head(filters)) \o queryEventsAppended(D, Tail(filters))

queryEvents(D, filters) ==
    SortEvents(UNION { Range(selectFilter(D, filters[i])) : i \in 1..Len(filters) })

\* options: [limit (optional), kinds, authors (sets, empty when absent)]
ChangesOptions(limit, kinds, authors) ==
    [ limit |-> limit, kinds |-> kinds, authors |-> authors ]

\* options.limit ? `LIMIT ${options.limit}` : ""  (0 is falsy; LIMIT -1 is no limit)
limitClause(rows, limit) ==
    IF IsSome(limit) /\ limit[1] # 0
      THEN (IF limit[1] < 0 THEN rows ELSE Limit(rows, limit[1]))
    ELSE rows

\* a faulty variant of queryChanges: WHERE seq >= ? instead of seq > ?
queryChangesFromSince(D, sinceSeq, options) ==
    LET rows == SortRows({ r \in D.events :
                    /\ r.seq >= sinceSeq
                    /\ options.kinds # {} => r.event.kind \in options.kinds
                    /\ options.authors # {} => r.event.pubkey \in options.authors })
        changes == limitClause(rows, options.limit)
    IN  [ changes |-> changes,
          lastSeq |-> IF Len(changes) > 0 THEN changes[Len(changes)].seq
                      ELSE getLastSeq(D) ]

\* a faulty variant of queryChanges: lastSeq is always the global lastSeq
queryChangesGlobalLastSeq(D, sinceSeq, options) ==
    LET rows == SortRows({ r \in D.events :
                    /\ r.seq > sinceSeq
                    /\ options.kinds # {} => r.event.kind \in options.kinds
                    /\ options.authors # {} => r.event.pubkey \in options.authors })
    IN  [ changes |-> limitClause(rows, options.limit), lastSeq |-> getLastSeq(D) ]

queryChanges(D, sinceSeq, options) ==
    LET rows == SortRows({ r \in D.events :
                    /\ r.seq > sinceSeq
                    /\ options.kinds # {} => r.event.kind \in options.kinds
                    /\ options.authors # {} => r.event.pubkey \in options.authors })
        changes == limitClause(rows, options.limit)
    IN  [ changes |-> changes,
          lastSeq |-> IF Len(changes) > 0 THEN changes[Len(changes)].seq
                      ELSE getLastSeq(D) ]

-----------------------------------------------------------------------------
(* handlers.ts: frames, the subscription registry and the broadcaster *)

Conns == { "c1", "c2" }

\* a relay frame; the fields a frame type does not carry hold a default
Frame(t, sub, id, seq, ok, msg, list) ==
    [ t |-> t, sub |-> sub, id |-> id, seq |-> seq, ok |-> ok, msg |-> msg,
      list |-> list ]

EventFrame(subId, event) == Frame("EVENT", subId, event.id, 0, TRUE, "", << >>)

OkFrame(id, ok, msg) == Frame("OK", "", id, 0, ok, msg, << >>)

EoseFrame(subId) == Frame("EOSE", subId, 0, 0, TRUE, "", << >>)

ClosedFrame(subId, msg) == Frame("CLOSED", subId, 0, 0, TRUE, msg, << >>)

NoticeFrame(msg) == Frame("NOTICE", "", 0, 0, TRUE, msg, << >>)

\* ["CHANGES", { changes, lastSeq }]: list holds the seqs of the changes
ChangesFrame(result) ==
    Frame("CHANGES", "", 0, result.lastSeq, TRUE, "",
          [ i \in 1..Len(result.changes) |-> result.changes[i].seq ])

LastSeqFrame(n) == Frame("LASTSEQ", "", 0, n, TRUE, "", << >>)

ChangesEventFrame(subId, seq, event) ==
    Frame("CHANGES_EVENT", subId, event.id, seq, TRUE, "", << >>)

ChangesEoseFrame(subId, lastSeq) ==
    Frame("CHANGES_EOSE", subId, 0, lastSeq, TRUE, "", << >>)

NoFrames == [ c \in Conns |-> << >> ]

Only(ws, frames) == [ c \in Conns |-> IF c = ws THEN frames ELSE << >> ]

\* ClientState of handleOpen
NewClientState == [ subscriptions |-> << >>, changesSubscriptions |-> << >> ]

\* a faulty variant of MapSet: the entry is added without looking for the key
MapSetAppend(m, entry) == Append(m, entry)

\* Map.prototype.set: an existing key keeps its place, a new key goes last
MapSet(m, entry) ==
    IF \E i \in 1..Len(m) : m[i].id = entry.id
      THEN [ i \in 1..Len(m) |-> IF m[i].id = entry.id THEN entry ELSE m[i] ]
    ELSE Append(m, entry)

\* Map.prototype.delete
MapDelete(m, id) == SelectSeq(m, LAMBDA x : x.id # id)

MapHas(m, id) == \E i \in 1..Len(m) : m[i].id = id

MapGet(m, id) == m[CHOOSE i \in 1..Len(m) : m[i].id = id]

matchesChangesOptions(event, options) ==
    /\ options.kinds # {} => event.kind \in options.kinds
    /\ options.authors # {} => event.pubkey \in options.authors

\* for (const [subId, subscription] of state.subscriptions)
\*   if (matchesFilters(...)) { send(ws, ["EVENT", subId, event]); break; }
regularDelivery(state, event) ==
    LET hit == { i \in 1..Len(state.subscriptions) :
                   matchesFilters(event, state.subscriptions[i].filters) }
    IN  IF hit = {} THEN << >>
        ELSE << EventFrame(state.subscriptions[CHOOSE i \in hit : \A j \in hit : i <= j].id,
                           event) >>

\* a faulty variant of changesDelivery: the loop breaks after the first match, as the
\* loop over the regular subscriptions does
changesDeliveryFirst(state, event, seq) ==
    LET hit == SelectSeq(state.changesSubscriptions,
                         LAMBDA cs : matchesChangesOptions(event, cs.options))
    IN  IF Len(hit) = 0 THEN << >>
        ELSE << ChangesEventFrame(hit[1].id, seq, event) >>

\* for (const [subId, changesSub] of state.changesSubscriptions)
\*   if (matchesChangesOptions(...)) send(ws, ["CHANGES_EVENT", subId, { seq, event }]);
changesDelivery(state, event, seq) ==
    LET hit == SelectSeq(state.changesSubscriptions,
                         LAMBDA cs : matchesChangesOptions(event, cs.options))
    IN  [ i \in 1..Len(hit) |-> ChangesEventFrame(hit[i].id, seq, event) ]

\* broadcast(event, seq, excludeWs): the frames sent to each socket
broadcast(cl, event, seq, excludeWs) ==
    [ c \in Conns |->
        IF c \in DOMAIN cl /\ Some(c) # excludeWs
          THEN regularDelivery(cl[c], event) \o changesDelivery(cl[c], event, seq)
        ELSE << >> ]

\* the loops of handleEvent over the sender's own subscriptions
senderDelivery(cl, ws, event, seq) ==
    IF ws \in DOMAIN cl
      THEN regularDelivery(cl[ws], event) \o changesDelivery(cl[ws], event, seq)
    ELSE << >>

\* if (result.success && result.seq !== undefined) { broadcast(validEvent, result.seq); ... }
fanOut(cl, ws, event, result) ==
    IF result.success /\ IsSome(result.seq)
      THEN LET b == broadcast(cl, event, result.seq[1], None)
           IN  [ c \in Conns |->
                   b[c] \o (IF c = ws THEN senderDelivery(cl, ws, event, result.seq[1])
                            ELSE << >>) ]
    ELSE NoFrames

-----------------------------------------------------------------------------
(* validation.ts.  A raw event is [event, verdict]: verdict is the outcome    *)
(* of the id, signature and timestamp checks, which the model takes as an    *)
(* input ("" when they pass); the range check on kind is computed.           *)

Raw(event, verdict) == [ event |-> event, verdict |-> verdict ]

validateEvent(raw) ==
    IF raw.event.kind < 0 \/ raw.event.kind > 65535
      THEN Some("invalid: kind must be an integer between 0 and 65535")
    ELSE IF raw.verdict # "" THEN Some(raw.verdict)
    ELSE None

-----------------------------------------------------------------------------
(* handlers.ts: handleEvent after `await validateEvent`.  The result holds  *)
(* the new database, the frames sent to each socket, the storeEvent result  *)
(* (if storeEvent ran) and the ids purgeDocument deleted.                   *)

Handled(D, frames, result, purged) ==
    [ db |-> D, frames |-> frames, result |-> result, purged |-> purged ]

Rejected(D, ws, id, msg) ==
    Handled(D, Only(ws, << OkFrame(id, FALSE, msg) >>), None, {})

\* a faulty variant of storeAndFanOut: the OK is sent after the fan-out
storeAndFanOutOkLast(D, cl, ws, event, fault, purged) ==
    LET result == storeEvent(D, event, fault)
        fan == fanOut(cl, ws, event, result)
    IN  Handled(result.db,
                [ c \in Conns |->
                    fan[c] \o (IF c = ws
                                 THEN << OkFrame(event.id, result.success, result.message) >>
                               ELSE << >>) ],
                Some(result), purged)

\* storeEvent, the OK frame and the fan-out (lines 107-128 and 132-156)
storeAndFanOut(D, cl, ws, event, fault, purged) ==
    LET result == storeEvent(D, event, fault)
        fan == fanOut(cl, ws, event, result)
    IN  Handled(result.db,
                [ c \in Conns |->
                    (IF c = ws THEN << OkFrame(event.id, result.success, result.message) >>
                     ELSE << >>) \o fan[c] ],
                Some(result), purged)

\* !docId || !kindStr: null and the empty string are both falsy
isFalsy(o) == ~IsSome(o) \/ o[1] = ""

\* a faulty variant of badTargetKind: the upper end of the range is not tested
badTargetKindBelowOnly(targetKind) ==
    ~IsSome(targetKind) \/ targetKind[1] < KIND_RANGES.SYNCABLE_min

\* isNaN(targetKind) || targetKind < SYNCABLE.min || targetKind >= PURGE
badTargetKind(targetKind) ==
    \/ ~IsSome(targetKind)
    \/ targetKind[1] < KIND_RANGES.SYNCABLE_min
    \/ targetKind[1] >= KIND_RANGES.PURGE

handlePurge(D, cl, ws, event, fault) ==
    LET docId == getTagValue(event, "d")
        kindStr == getTagValue(event, "k")
    IN  IF isFalsy(docId) \/ isFalsy(kindStr)
          THEN Rejected(D, ws, event.id, "invalid: purge event must have d and k tags")
        ELSE LET targetKind == parseInt(kindStr[1])
             IN  IF badTargetKind(targetKind)
                   THEN Rejected(D, ws, event.id,
                                 "invalid: k tag must be a valid syncable kind")
                 ELSE LET purgeResult ==
                              purgeDocument(D, event.pubkey, targetKind[1], docId[1])
                      IN  storeAndFanOut(purgeResult.db, cl, ws, event, fault,
                                         StoredIds(D) \ StoredIds(purgeResult.db))

\* a faulty variant of handleEvent: the ingest of a socket that has closed
\* during validation is given up
handleEventOfOpen(D, cl, ws, raw, fault) ==
    LET validation == validateEvent(raw)
    IN  IF IsSome(validation)
          THEN Rejected(D, ws, raw.event.id, validation[1])
        ELSE IF ws \notin DOMAIN cl
          THEN Rejected(D, ws, raw.event.id, "error: connection closed")
        ELSE IF isPurgeKind(raw.event.kind)
          THEN handlePurge(D, cl, ws, raw.event, fault)
        ELSE storeAndFanOut(D, cl, ws, raw.event, fault, {})

handleEvent(D, cl, ws, raw, fault) ==
    LET validation == validateEvent(raw)
    IN  IF IsSome(validation)
          THEN Rejected(D, ws, raw.event.id, validation[1])
        ELSE IF isPurgeKind(raw.event.kind)
          THEN handlePurge(D, cl, ws, raw.event, fault)
        ELSE storeAndFanOut(D, cl, ws, raw.event, fault, {})

-----------------------------------------------------------------------------
(* handlers.ts: the synchronous handlers.  Each returns the new registry    *)
(* and the frames it sends to the socket.                                   *)

Reply(cl, frames) == [ clients |-> cl, frames |-> frames ]

\* options as sent by the client: since and limit optional, kinds and authors sets
ClientOptions(since, limit, kinds, authors) ==
    [ since |-> since, limit |-> limit, kinds |-> kinds, authors |-> authors ]

\* typeof opts.since === "number" ? opts.since : 0
sinceSeqOf(opts) == IF IsSome(opts.since) THEN opts.since[1] ELSE 0

RECURSIVE firstInvalid(_, _)
\* the error of the first filter validateFilter rejects, from position i on
firstInvalid(filters, i) ==
    IF i > Len(filters) THEN None
    ELSE IF IsSome(validateFilter(filters[i])) THEN validateFilter(filters[i])
    ELSE firstInvalid(filters, i + 1)

\* a faulty variant of handleReq: the subscription is stored before its filters are
\* validated
handleReqStoreFirst(D, cl, ws, subscriptionId, filters) ==
    IF Len(subscriptionId) = 0 \/ Len(subscriptionId) > 64
      THEN Reply(cl, << ClosedFrame(subscriptionId,
                                    "invalid: subscription id must be 1-64 characters") >>)
    ELSE LET stored == [ cl EXCEPT ![ws].subscriptions =
                           MapSet(@, [ id |-> subscriptionId, filters |-> filters ]) ]
             found == queryEvents(D, filters)
         IN  IF IsSome(firstInvalid(filters, 1))
               THEN Reply(stored, << ClosedFrame(subscriptionId,
                                        "invalid: " \o firstInvalid(filters, 1)[1]) >>)
             ELSE Reply(stored,
                        [ i \in 1..Len(found) |-> EventFrame(subscriptionId, found[i]) ]
                            \o << EoseFrame(subscriptionId) >>)

handleReq(D, cl, ws, subscriptionId, filters) ==
    IF Len(subscriptionId) = 0 \/ Len(subscriptionId) > 64
      THEN Reply(cl, << ClosedFrame(subscriptionId,
                                    "invalid: subscription id must be 1-64 characters") >>)
    ELSE IF IsSome(firstInvalid(filters, 1))
      THEN Reply(cl, << ClosedFrame(subscriptionId,
                                    "invalid: " \o firstInvalid(filters, 1)[1]) >>)
    ELSE IF Len(filters) = 0
      THEN Reply(cl, << ClosedFrame(subscriptionId,
                                    "invalid: at least one filter required") >>)
    ELSE LET found == queryEvents(D, filters)
         IN  Reply([ cl EXCEPT ![ws].subscriptions =
                         MapSet(@, [ id |-> subscriptionId, filters |-> filters ]) ],
                   [ i \in 1..Len(found) |-> EventFrame(subscriptionId, found[i]) ]
                       \o << EoseFrame(subscriptionId) >>)

\* a faulty variant of handleClose: the id is deleted from both maps
handleCloseBoth(cl, ws, subscriptionId) ==
    Reply([ cl EXCEPT ![ws].subscriptions = MapDelete(@, subscriptionId),
                      ![ws].changesSubscriptions = MapDelete(@, subscriptionId) ], << >>)

handleClose(cl, ws, subscriptionId) ==
    Reply([ cl EXCEPT ![ws].subscriptions = MapDelete(@, subscriptionId) ], << >>)

handleChanges(D, cl, ws, opts) ==
    Reply(cl, << ChangesFrame(queryChanges(D, sinceSeqOf(opts),
                     ChangesOptions(opts.limit, opts.kinds, opts.authors))) >>)

handleLastSeq(D, cl, ws) == Reply(cl, << LastSeqFrame(getLastSeq(D)) >>)

handleChangesSub(D, cl, ws, subscriptionId, opts) ==
    IF Len(subscriptionId) = 0 \/ Len(subscriptionId) > 64
      THEN Reply(cl, << NoticeFrame("error: subscription id must be 1-64 characters") >>)
    ELSE LET sinceSeq == sinceSeqOf(opts)
             result == queryChanges(D, sinceSeq,
                                    ChangesOptions(None, opts.kinds, opts.authors))
         IN  Reply([ cl EXCEPT ![ws].changesSubscriptions =
                         MapSet(@, [ id |-> subscriptionId,
                                     options |-> [ since |-> sinceSeq,
                                                   kinds |-> opts.kinds,
                                                   authors |-> opts.authors ] ]) ],
                   [ i \in 1..Len(result.changes) |->
                        ChangesEventFrame(subscriptionId, result.changes[i].seq,
                                          result.changes[i].event) ]
                       \o << ChangesEoseFrame(subscriptionId, result.lastSeq) >>)

handleChangesUnsub(cl, ws, subscriptionId) ==
    Reply([ cl EXCEPT ![ws].changesSubscriptions = MapDelete(@, subscriptionId) ], << >>)

\* a text frame as handleMessage sees it: whether JSON.parse succeeds, whether
\* the value is an array, its number of elements and its first element
Msg(json, array, len, type) == [ json |-> json, array |-> array, len |-> len, type |-> type ]

\* a faulty variant of handleMessage: a REQ needs two elements only
handleMessageReqOfTwo(msg) ==
    IF ~msg.json THEN Some("error: invalid JSON")
    ELSE IF ~msg.array \/ msg.len = 0 THEN Some("error: message must be a non-empty array")
    ELSE CASE msg.type = "EVENT" ->
                IF msg.len # 2 THEN Some("error: EVENT message must have exactly 2 elements")
                ELSE None
           [] msg.type = "REQ" ->
                IF msg.len < 2
                  THEN Some("error: REQ message must have subscription ID and at least one filter")
                ELSE None
           [] msg.type = "CLOSE" ->
                IF msg.len # 2 THEN Some("error: CLOSE message must have exactly 2 elements")
                ELSE None
           [] msg.type \in { "CHANGES", "LASTSEQ" } -> None
           [] msg.type = "CHANGES_SUB" ->
                IF msg.len < 2 THEN Some("error: CHANGES_SUB message must have subscription ID")
                ELSE None
           [] msg.type = "CHANGES_UNSUB" ->
                IF msg.len # 2
                  THEN Some("error: CHANGES_UNSUB message must have exactly 2 elements")
                ELSE None
           [] OTHER -> Some("error: unknown message type: " \o msg.type)

\* handleMessage up to the call of a handler: the NOTICE it answers with, or
\* None when the frame is passed on to the handler of its command
handleMessage(msg) ==
    IF ~msg.json THEN Some("error: invalid JSON")
    ELSE IF ~msg.array \/ msg.len = 0 THEN Some("error: message must be a non-empty array")
    ELSE CASE msg.type = "EVENT" ->
                IF msg.len # 2 THEN Some("error: EVENT message must have exactly 2 elements")
                ELSE None
           [] msg.type = "REQ" ->
                IF msg.len < 3
                  THEN Some("error: REQ message must have subscription ID and at least one filter")
                ELSE None
           [] msg.type = "CLOSE" ->
                IF msg.len # 2 THEN Some("error: CLOSE message must have exactly 2 elements")
                ELSE None
           [] msg.type \in { "CHANGES", "LASTSEQ" } -> None
           [] msg.type = "CHANGES_SUB" ->
                IF msg.len < 2 THEN Some("error: CHANGES_SUB message must have subscription ID")
                ELSE None
           [] msg.type = "CHANGES_UNSUB" ->
                IF msg.len # 2
                  THEN Some("error: CHANGES_UNSUB message must have exactly 2 elements")
                ELSE None
           [] OTHER -> Some("error: unknown message type: " \o msg.type)

-----------------------------------------------------------------------------
(* The state machine *)

\* bounds: the number of client frames the relay receives in a run, for the
\* runs about subscriptions and for the runs about the store
MaxFrames == 4

MaxStoreFrames == 3

NoEvent == Ev(0, "", 0, 0, << >>)

\* what the last step did (history)
Did(op, ws, sub, event, valid, success, message, seq, purged) ==
    [ op |-> op, ws |-> ws, sub |-> sub, event |-> event, valid |-> valid,
      success |-> success, message |-> message, seq |-> seq, purged |-> purged,
      opts |-> ClientOptions(None, None, {}, {}), filters |-> << >> ]

DidOp(op, ws, sub) == Did(op, ws, sub, NoEvent, FALSE, FALSE, "", None, {})

\* a step whose message carried an options object
DidOpts(op, ws, sub, opts) == [ DidOp(op, ws, sub) EXCEPT !.opts = opts ]

Fresh(n) ==
    /\ budget = n
    /\ events = {}
    /\ event_tags = {}
    /\ sqlite_sequence = 0
    /\ clients = [ c \in {} |-> NewClientState ]
    /\ closed = {}
    /\ pending = << >>
    /\ out = [ c \in Conns |-> << >> ]
    /\ nframes = 0
    /\ assigned = << >>
    /\ mark = [ c \in Conns |-> 0 ]
    /\ last = DidOp("init", "", "")
    /\ reg = {}

Init == Fresh(MaxFrames)

\* ws.send: a frame sent on a closed socket is dropped
Send(frames) ==
    /\ out' = [ c \in Conns |-> IF c \in DOMAIN clients THEN out[c] \o frames[c]
                                ELSE out[c] ]
    /\ mark' = [ c \in Conns |-> Len(out[c]) ]

UnchangedDb == UNCHANGED << events, event_tags, sqlite_sequence, assigned >>

UnchangedStore == UnchangedDb /\ UNCHANGED reg

\* websocket.open -> handleOpen
Open(ws) ==
    /\ ws \notin DOMAIN clients
    /\ ws \notin closed
    /\ clients' = [ c \in DOMAIN clients \cup { ws } |->
                      IF c = ws THEN NewClientState ELSE clients[c] ]
    /\ last' = DidOp("OPEN", ws, "")
    /\ Send(NoFrames)
    /\ UnchangedStore
    /\ UNCHANGED << closed, pending, nframes, budget >>

\* a faulty variant of Disconnect: the socket's entry stays in the clients map
DisconnectKeepsState(ws) ==
    /\ ws \in DOMAIN clients
    /\ ws \notin closed
    /\ closed' = closed \cup { ws }
    /\ last' = DidOp("DISCONNECT", ws, "")
    /\ Send(NoFrames)
    /\ UnchangedStore
    /\ UNCHANGED << clients, pending, nframes, budget >>

\* websocket.close -> handleDisconnect
Disconnect(ws) ==
    /\ ws \in DOMAIN clients
    /\ clients' = [ c \in DOMAIN clients \ { ws } |-> clients[c] ]
    /\ closed' = closed \cup { ws }
    /\ last' = DidOp("DISCONNECT", ws, "")
    /\ Send(NoFrames)
    /\ UnchangedStore
    /\ UNCHANGED << pending, nframes, budget >>

\* handleMessage, case "EVENT": handleEvent runs up to `await validateEvent`
RecvEvent(ws, raw) ==
    /\ ws \in DOMAIN clients
    /\ nframes < budget
    /\ nframes' = nframes + 1
    /\ pending' = Append(pending, [ ws |-> ws, raw |-> raw ])
    /\ last' = DidOp("EVENT_RECEIVED", ws, "")
    /\ Send(NoFrames)
    /\ UnchangedStore
    /\ UNCHANGED << clients, closed, budget >>

\* the continuation of the oldest suspended handleEvent
ResumeEvent(fault) ==
    /\ pending # << >>
    /\ LET p == Head(pending)
           h == handleEvent(DB, clients, p.ws, p.raw, fault)
           newRows == h.db.events \ events
       IN  /\ events' = h.db.events
           /\ event_tags' = h.db.event_tags
           /\ sqlite_sequence' = h.db.sqlite_sequence
           /\ assigned' = IF newRows = {} THEN assigned
                          ELSE Append(assigned, CHOOSE r \in newRows : TRUE)
           /\ last' = IF IsSome(h.result)
                        THEN Did("EVENT", p.ws, "", p.raw.event, TRUE,
                                 h.result[1].success, h.result[1].message,
                                 h.result[1].seq, h.purged)
                      ELSE Did("EVENT", p.ws, "", p.raw.event,
                               ~IsSome(validateEvent(p.raw)), FALSE,
                               h.frames[p.ws][1].msg, None, {})
           /\ Send(h.frames)
    /\ pending' = Tail(pending)
    /\ UNCHANGED << clients, closed, nframes, budget, reg >>

\* a synchronous handler's step on socket ws; did is its history record
SyncDid(ws, did, reply) ==
    /\ ws \in DOMAIN clients
    /\ nframes < budget
    /\ nframes' = nframes + 1
    /\ clients' = reply.clients
    /\ last' = did
    /\ Send(Only(ws, reply.frames))
    /\ UnchangedDb
    /\ UNCHANGED << closed, pending, budget >>

SyncStep(ws, op, sub, reply) == SyncDid(ws, DidOp(op, ws, sub), reply)

Sync(ws, op, sub, reply) == SyncStep(ws, op, sub, reply) /\ UNCHANGED reg

Req(ws, subscriptionId, filters) ==
    /\ SyncDid(ws, [ DidOp("REQ", ws, subscriptionId) EXCEPT !.filters = filters ],
               handleReq(DB, clients, ws, subscriptionId, filters))
    /\ UNCHANGED reg

Close(ws, subscriptionId) ==
    Sync(ws, "CLOSE", subscriptionId, handleClose(clients, ws, subscriptionId))

Changes(ws, opts) ==
    /\ SyncDid(ws, DidOpts("CHANGES", ws, "", opts), handleChanges(DB, clients, ws, opts))
    /\ UNCHANGED reg

LastSeq(ws) == Sync(ws, "LASTSEQ", "", handleLastSeq(DB, clients, ws))

\* reg remembers, for the subscription registered now, the length of the
\* socket's frame log, the number of inserts so far and the rows stored
ChangesSub(ws, subscriptionId, opts) ==
    /\ SyncDid(ws, DidOpts("CHANGES_SUB", ws, subscriptionId, opts),
               handleChangesSub(DB, clients, ws, subscriptionId, opts))
    /\ reg' = { r \in reg : ~(r.ws = ws /\ r.sub = subscriptionId) }
                 \cup { [ ws |-> ws, sub |-> subscriptionId, at |-> Len(out[ws]),
                          n |-> Len(assigned), rows |-> events ] }

ChangesUnsub(ws, subscriptionId) ==
    Sync(ws, "CHANGES_UNSUB", subscriptionId,
         handleChangesUnsub(clients, ws, subscriptionId))

\* a frame that handleMessage answers itself, with a NOTICE; sub records the
\* first element of the frame
Notice(ws, msg) ==
    /\ IsSome(handleMessage(msg))
    /\ Sync(ws, "NOTICE", msg.type, Reply(clients, << NoticeFrame(handleMessage(msg)[1]) >>))

-----------------------------------------------------------------------------
(* Inputs.  Pubkeys are "p1", "p2"; every event has its own id. *)

R1 == Ev(1, "p1", 10, 10000, << >>)

R2 == Ev(2, "p1", 10, 10000, << >>)

R3 == Ev(3, "p1", 11, 10000, << >>)

A3 == Ev(13, "p1", 10, 30000, << >>)

A4 == Ev(14, "p1", 11, 30000, << << "d" >> >>)

S1 == Ev(21, "p1", 10, 40001, << << "d", "D" >>, << "i", "1-aa" >> >>)

S2 == Ev(22, "p1", 11, 40001, << << "d", "D" >>, << "i", "2-bb" >>, << "v", "1-aa" >> >>)

P1 == Ev(23, "p1", 12, 49999, << << "d", "D" >>, << "k", "40001" >> >>)

N1 == Ev(31, "p1", 10, 1, << >>)

N2 == Ev(32, "p2", 11, 1, << << "e", "x" >> >>)

StoreEvents == { R1, R2, R3, A3, A4, S1, S2, P1 }

Valid(E) == { Raw(e, "") : e \in E }

AllChanges == ClientOptions(None, None, {}, {})

\* the store under ingests of every retention class, with one change-feed
\* subscriber and LASTSEQ queries
NextStore ==
    \/ Open("c1")
    \/ \E raw \in Valid(StoreEvents) : RecvEvent("c1", raw)
    \/ ResumeEvent("none")
    \/ LastSeq("c1")
    \/ ChangesSub("c1", "f", AllChanges)

SpecStore == Fresh(MaxStoreFrames) /\ [][NextStore]_vars

-----------------------------------------------------------------------------
(* Vocabulary of the properties *)

\* the frames the last step sent on socket c
Emitted(c) == SubSeq(out[c], mark[c] + 1, Len(out[c]))

\* the d-tag value of an event: the empty string when it has no d tag
DTagOf(e) == IF IsSome(getDTagValue(e)) THEN getDTagValue(e)[1] ELSE ""

DuplicateReasons ==
    { "duplicate: already have this event",
      "duplicate: have a newer version of this replaceable event",
      "duplicate: have a newer version of this addressable event" }

\* the last step ran storeEvent for an event and inserted it
Inserted == last.op = "EVENT" /\ last.success /\ IsSome(last.seq)

\* the largest seq any insert has been given so far, 0 if none
MaxAssigned == SetMax({ assigned[i].seq : i \in 1..Len(assigned) })

-----------------------------------------------------------------------------
(* C1: for every pubkey and replaceable kind the store holds at most one     *)
(* event, in every reachable state.                                         *)
C1_ReplaceableSingleton ==
    \A a, b \in StoredEvents(DB) :
        (isReplaceableKind(a.kind) /\ a.pubkey = b.pubkey /\ a.kind = b.kind) => a = b

\* a replaceable event has just replaced the stored event of its key
C1_Witness ==
    /\ Inserted
    /\ isReplaceableKind(last.event.kind)
    /\ \E i \in 1..Len(assigned) :
          /\ assigned[i].event.pubkey = last.event.pubkey
          /\ assigned[i].event.kind = last.event.kind
          /\ assigned[i].event \notin StoredEvents(DB)

(* C2: for every pubkey, addressable kind and d-tag value (the empty string  *)
(* for an event without a d tag) the store holds at most one event.          *)
C2_AddressableSingleton ==
    \A a, b \in StoredEvents(DB) :
        (/\ isAddressableKind(a.kind)
         /\ a.pubkey = b.pubkey
         /\ a.kind = b.kind
         /\ DTagOf(a) = DTagOf(b)) => a = b

(* C7: the seqs of successive inserts are strictly increasing (deleted rows  *)
(* included, so no seq is given twice), and a live CHANGES_EVENT carries the *)
(* seq under which its event is stored.                                      *)
C7_SeqMonotonic ==
    /\ \A i, j \in 1..Len(assigned) : i < j => assigned[i].seq < assigned[j].seq
    /\ last.op = "EVENT" =>
          \A c \in Conns : \A k \in 1..Len(Emitted(c)) :
              Emitted(c)[k].t = "CHANGES_EVENT" =>
                  \E r \in events :
                      r.event.id = Emitted(c)[k].id /\ r.seq = Emitted(c)[k].seq

\* an insert after a deletion, delivered live to a change-feed subscription
C7_Witness ==
    /\ Inserted
    /\ Len(assigned) > Cardinality(events)
    /\ \E k \in 1..Len(Emitted("c1")) : Emitted("c1")[k].t = "CHANGES_EVENT"

(* C8: getLastSeq() is the largest seq ever assigned by an insert, 0 if      *)
(* there was none (so the value answered to LASTSEQ never decreases).        *)
C8_LastSeqIsMaxAssigned == getLastSeq(DB) = MaxAssigned

\* the stored events of the key of a replaceable or addressable event e
SameKey(e) ==
    { x \in StoredEvents(DB) :
        /\ x.pubkey = e.pubkey
        /\ x.kind = e.kind
        /\ \/ isReplaceableKind(e.kind)
           \/ isAddressableKind(e.kind) /\ DTagOf(x) = DTagOf(e) }

\* the event of the oldest suspended handleEvent is valid and would not be
\* newly stored: its id is stored, or a stored event of its key beats it in
\* the (created_at desc, id asc) order
NotNewlyStored ==
    /\ pending # << >>
    /\ ~IsSome(validateEvent(Head(pending).raw))
    /\ LET e == Head(pending).raw.event
       IN  \/ e.id \in StoredIds(DB)
           \/ \E x \in SameKey(e) : x # e /\ OrderedBefore(x, e)

(* C9: the ingest of an event that is not newly stored is answered with OK   *)
(* true and a "duplicate:" reason, leaves the events table (with its seqs)   *)
(* and the tag index unchanged and sends no EVENT or CHANGES_EVENT frame.    *)
C9_DuplicateChangesNothing ==
    [][ (NotNewlyStored /\ last'.op = "EVENT") =>
            /\ last'.success
            /\ last'.message \in DuplicateReasons
            /\ events' = events
            /\ event_tags' = event_tags
            /\ \A c \in Conns : \A k \in (Len(out[c]) + 1)..Len(out'[c]) :
                  out'[c][k].t \notin { "EVENT", "CHANGES_EVENT" } ]_vars

\* what holds after the purge event last.event has been handled: the target
\* document is gone with its tag rows, the purge event is stored under a seq
\* assigned in this step and a REQ on kind 49999 and its d tag returns it
PurgeDone ==
    LET p == last.event
        K == parseInt(getTagValue(p, "k")[1])[1]
        D == getTagValue(p, "d")[1]
    IN  /\ ~\E e \in StoredEvents(DB) :
              e.pubkey = p.pubkey /\ e.kind = K /\ DTagOf(e) = D
        /\ \A t \in event_tags : t.event_id \notin last.purged
        /\ IsSome(last.seq)
        /\ Len(assigned) > 0
        /\ assigned[Len(assigned)] = [ seq |-> last.seq[1], event |-> p ]
        /\ assigned[Len(assigned)] \in events
        /\ \A i \in 1..(Len(assigned) - 1) : assigned[i].seq < last.seq[1]
        /\ p \in Range(queryEvents(DB,
                 << Filter({}, {}, { 49999 }, None, None, None,
                           [ x \in { "d" } |-> { D } ]) >>))

\* the last step handled a purge event that passed validation and the purge
\* payload checks, and answered OK true
PurgeAccepted ==
    last.op = "EVENT" /\ last.valid /\ isPurgeKind(last.event.kind) /\ last.success

(* C10 as claimed: after a valid purge event has been accepted, its target   *)
(* document is gone, no tag row of a deleted event is left, and the purge    *)
(* event is stored with a newly assigned seq and returned by a REQ on kind   *)
(* 49999 and its d tag.                                                      *)
C10_AcceptedPurge == PurgeAccepted => PurgeDone

(* C10 as amended: the same, for a purge event accepted with an empty        *)
(* reason, that is, one that was not already stored.                         *)
C10_NewPurge == (PurgeAccepted /\ last.message = "") => PurgeDone

\* a purge event was stored and deleted revisions of its document
C10_Witness == PurgeAccepted /\ last.message = "" /\ last.purged # {}

-----------------------------------------------------------------------------
(* Regular subscriptions: both sockets publish and subscribe *)

ByKind1 == Filter({}, {}, { 1 }, None, None, None, NoTags)

ByAuthorP1 == Filter({}, { "p1" }, {}, None, None, None, NoTags)

FiltersOf(subscriptionId) ==
    IF subscriptionId = "s1" THEN << ByKind1 >> ELSE << ByAuthorP1 >>

NextSub ==
    \/ \E ws \in Conns : Open(ws)
    \/ \E ws \in Conns, raw \in Valid({ N1, N2 }) : RecvEvent(ws, raw)
    \/ ResumeEvent("none")
    \/ \E ws \in Conns, id \in { "s1", "s2" } : Req(ws, id, FiltersOf(id))
    \/ \E ws \in Conns : Close(ws, "s1")

SpecSub == Init /\ [][NextSub]_vars

\* the EVENT frames for the event of the last step sent on c in that step
LiveEvents(c) ==
    { k \in 1..Len(Emitted(c)) :
        Emitted(c)[k].t = "EVENT" /\ Emitted(c)[k].id = last.event.id }

\* the last step handled a valid event and answered OK true without a
\* "duplicate:" reason
Accepted ==
    last.op = "EVENT" /\ last.valid /\ last.success
        /\ last.message \notin DuplicateReasons

(* C3: when an event is ingested and accepted, every registered regular      *)
(* subscription (its REQ has completed) whose filters match it gets exactly  *)
(* one EVENT frame carrying it, on every connection, the submitter included, *)
(* also when a connection holds several matching subscriptions.              *)
C3_ExactlyOnePerSubscription ==
    Accepted =>
        \A c \in DOMAIN clients : \A i \in 1..Len(clients[c].subscriptions) :
            matchesFilters(last.event, clients[c].subscriptions[i].filters) =>
                Cardinality({ k \in LiveEvents(c) :
                    Emitted(c)[k].sub = clients[c].subscriptions[i].id }) = 1

(* C4: live fan-out sends at most one EVENT frame carrying an accepted event *)
(* to any connection, the submitting connection included.                    *)
C4_AtMostOnePerConnection ==
    Accepted => \A c \in Conns : Cardinality(LiveEvents(c)) <= 1

-----------------------------------------------------------------------------
(* The change feed: c1 publishes and subscribes, c2 subscribes *)

FromOneKind10000 == ClientOptions(Some(1), None, { 10000 }, {})

ByP2 == ClientOptions(None, None, {}, { "p2" })

NextFeed ==
    \/ \E ws \in Conns : Open(ws)
    \/ \E raw \in Valid({ R1, R3, N2 }) : RecvEvent("c1", raw)
    \/ ResumeEvent("none")
    \/ \E ws \in Conns, opts \in { AllChanges, FromOneKind10000 } :
          ChangesSub(ws, "f", opts)
    \/ ChangesSub("c1", "g", ByP2)
    \/ ChangesUnsub("c1", "f")

SpecFeed == Init /\ [][NextFeed]_vars

\* the change-feed subscription that reg entry r describes is still registered
Registered(r) ==
    r.ws \in DOMAIN clients /\ MapHas(clients[r.ws].changesSubscriptions, r.sub)

\* the frames sent on that subscription since it was registered
FeedLog(r) ==
    SelectSeq(SubSeq(out[r.ws], r.at + 1, Len(out[r.ws])),
              LAMBDA f : f.sub = r.sub /\ f.t \in { "CHANGES_EVENT", "CHANGES_EOSE" })

\* event e matches the kinds and authors of a change-feed subscription
InFeed(e, options) ==
    /\ options.kinds = {} \/ e.kind \in options.kinds
    /\ options.authors = {} \/ e.pubkey \in options.authors

\* the inserts a subscription must deliver: those stored with seq > since
\* when it was registered, and those made afterwards
Owed(r, options) ==
    { i \in 1..Len(assigned) :
        /\ InFeed(assigned[i].event, options)
        /\ \/ i > r.n
           \/ assigned[i] \in r.rows /\ assigned[i].seq > options.since }

C6_FeedStrictlyIncreasing ==
    \A r \in reg : Registered(r) =>
        LET log == SelectSeq(FeedLog(r), LAMBDA f : f.t = "CHANGES_EVENT")
        IN  \A i, j \in 1..Len(log) : i < j => log[i].seq < log[j].seq

-----------------------------------------------------------------------------
(* Retention: what an ingest may remove from the store *)

A5 == Ev(15, "p1", 10, 30000, << << "d", "a" >>, << "d", "b" >> >>)

A6 == Ev(16, "p1", 11, 30000, << << "d", "b" >> >>)

S3 == Ev(20, "p1", 11, 40001, << << "d", "D" >>, << "i", "2-cc" >>, << "v", "1-aa" >> >>)

P2 == Ev(24, "p2", 12, 49999, << << "d", "D" >>, << "k", "40001" >> >>)

RetainEvents == { A5, A6, R1, R3, N1, S1, S2, S3, P1, P2 }

\* REQ {"kinds":[kind],"#d":[d]}
DocFilter(kind, d) ==
    Filter({}, {}, { kind }, None, None, None, [ x \in { "d" } |-> { d } ])

NextRetain ==
    \/ Open("c1")
    \/ \E raw \in Valid(RetainEvents) : RecvEvent("c1", raw)
    \/ ResumeEvent("none")
    \/ Req("c1", "s1", << DocFilter(40001, "D") >>)

SpecRetain == Fresh(MaxStoreFrames) /\ [][NextRetain]_vars

\* event e is a purge event with a valid payload that targets the document
\* (pubkey, kind, d): same pubkey, its k tag reads kind, its d tag is d
PurgeTargets(e, pubkey, kind, d) ==
    /\ isPurgeKind(e.kind)
    /\ e.pubkey = pubkey
    /\ ~isFalsy(getTagValue(e, "d")) /\ getTagValue(e, "d")[1] = d
    /\ ~isFalsy(getTagValue(e, "k"))
    /\ parseInt(getTagValue(e, "k")[1]) = Some(kind)
    /\ ~badTargetKind(Some(kind))

\* the ingest of the valid event e is allowed to remove the stored event x
MayRemove(e, x) ==
    /\ ~isRegularKind(x.kind)
    /\ ~isPurgeKind(x.kind)
    /\ e.pubkey = x.pubkey
    /\ \/ /\ e.kind = x.kind
          /\ \/ isReplaceableKind(x.kind)
             \/ isAddressableKind(x.kind) /\ DTagOf(e) = DTagOf(x)
          /\ e # x /\ OrderedBefore(e, x)
       \/ PurgeTargets(e, x.pubkey, x.kind, DTagOf(x))

(* C11: a stored event leaves the store only in the ingest of a valid event  *)
(* that supersedes it (same pubkey and kind of a replaceable kind, or same   *)
(* pubkey, kind and d-tag value of an addressable kind, and winning the      *)
(* tuple order) or of a valid purge event by the same pubkey whose k and d   *)
(* tags name its kind and d-tag value; regular events and purge events never *)
(* leave it.                                                                 *)
C11_RemovedOnlyBySupersessionOrPurge ==
    [][ \A r \in events : r \notin events' =>
            /\ pending # << >>
            /\ last'.op = "EVENT"
            /\ ~IsSome(validateEvent(Head(pending).raw))
            /\ MayRemove(Head(pending).raw.event, r.event) ]_vars

\* the revisions of the document (pubkey, kind, d) inserted so far
Revisions(pubkey, kind, d) ==
    { assigned[i].event : i \in { j \in 1..Len(assigned) :
        /\ assigned[j].event.pubkey = pubkey
        /\ assigned[j].event.kind = kind
        /\ getDTagValue(assigned[j].event) = Some(d) } }

\* a purge event that targets the document has been stored
Purged(pubkey, kind, d) ==
    \E i \in 1..Len(assigned) : PurgeTargets(assigned[i].event, pubkey, kind, d)

\* every revision of a syncable document that no purge has targeted is
\* stored, and a REQ on its kind and d tag returns them all, newest first
RevisionsKept ==
    \A i \in 1..Len(assigned) :
        LET e == assigned[i].event
        IN  (/\ e.kind >= 40000 /\ e.kind <= 49998
             /\ IsSome(getDTagValue(e))
             /\ ~Purged(e.pubkey, e.kind, getDTagValue(e)[1])) =>
                LET revs == Revisions(e.pubkey, e.kind, getDTagValue(e)[1])
                IN  /\ revs \subseteq StoredEvents(DB)
                    /\ SelectSeq(queryEvents(DB, << DocFilter(e.kind, getDTagValue(e)[1]) >>),
                                 LAMBDA x : x.pubkey = e.pubkey) = SortEvents(revs)

-----------------------------------------------------------------------------
(* Kinds outside the stored classes: ephemeral and unclassified events,     *)
(* published by c1 to subscribers on both sockets                           *)

E1 == Ev(41, "p1", 10, 20000, << >>)

E2 == Ev(42, "p1", 11, 29999, << << "e", "x" >> >>)

K45 == Ev(45, "p1", 10, 45, << >>)

K50000 == Ev(46, "p2", 10, 50000, << << "e", "x" >> >>)

KindEvents == { E1, E2, K45, K50000, N1 }

NextKinds ==
    \/ \E ws \in Conns : Open(ws)
    \/ \E raw \in Valid(KindEvents) : RecvEvent("c1", raw)
    \/ ResumeEvent("none")
    \/ \E ws \in Conns : Req(ws, "s1", << ByAuthorP1 >>)
    \/ ChangesSub("c2", "f", AllChanges)
    \/ LastSeq("c1")

SpecKinds == Fresh(MaxStoreFrames) /\ [][NextKinds]_vars

\* the last step handled an event that passed validation, of a kind in lo..hi
HandledKind(lo, hi) ==
    last.op = "EVENT" /\ last.valid /\ last.event.kind >= lo /\ last.event.kind <= hi

(* C13: when a valid event of ephemeral kind (20000-29999) is ingested,      *)
(* every connection with a regular subscription whose filters match it gets  *)
(* an EVENT frame carrying it, and no CHANGES_EVENT frame carries it.        *)
C13_EphemeralBroadcast ==
    HandledKind(20000, 29999) =>
        /\ \A c \in DOMAIN clients :
              (\E i \in 1..Len(clients[c].subscriptions) :
                  matchesFilters(last.event, clients[c].subscriptions[i].filters))
                 => LiveEvents(c) # {}
        /\ \A c \in Conns : \A k \in 1..Len(out[c]) :
              ~(out[c][k].t = "CHANGES_EVENT" /\ out[c][k].id = last.event.id)

(* C14: the ingest of a valid event of ephemeral kind (20000-29999) is       *)
(* answered OK true with an empty reason, assigns no seq, and leaves the     *)
(* events table, the tag index and getLastSeq() as they were; no stored      *)
(* event has its id.                                                         *)
C14_EphemeralNotStored ==
    [][ (last'.op = "EVENT" /\ last'.valid
            /\ last'.event.kind >= 20000 /\ last'.event.kind <= 29999) =>
           /\ last'.success /\ last'.message = "" /\ ~IsSome(last'.seq)
           /\ Len(out'[last'.ws]) > Len(out[last'.ws])
           /\ out'[last'.ws][Len(out[last'.ws]) + 1] = OkFrame(last'.event.id, TRUE, "")
           /\ events' = events
           /\ event_tags' = event_tags
           /\ assigned' = assigned
           /\ SetMax({ r.seq : r \in events' }) = getLastSeq(DB)
           /\ \A r \in events' : r.event.id # last'.event.id ]_vars

\* an ephemeral event with an indexable tag, of the last kind of the range,
\* has been ingested while the store held an event
C14_Witness ==
    HandledKind(29999, 29999) /\ tagRows(last.event) # {} /\ getLastSeq(DB) > 0

\* kind belongs to one of the classes of types.ts
Classified(kind) ==
    \/ isRegularKind(kind) \/ isReplaceableKind(kind) \/ isEphemeralKind(kind)
    \/ isAddressableKind(kind) \/ isSyncableKind(kind) \/ isPurgeKind(kind)

(* C15: a valid event whose kind is in none of the classes Regular,          *)
(* Replaceable, Ephemeral, Addressable, Syncable, Purge is answered OK       *)
(* false, is not stored and is not broadcast.                                *)
C15_UnclassifiedKindRejected ==
    (last.op = "EVENT" /\ last.valid /\ ~Classified(last.event.kind)) =>
        /\ ~last.success
        /\ last.event.id \notin StoredIds(DB)
        /\ \A c \in Conns : \A k \in 1..Len(Emitted(c)) :
              Emitted(c)[k].t \notin { "EVENT", "CHANGES_EVENT" }

-----------------------------------------------------------------------------
(* Rejections: events that fail validation, purge events with a bad payload *)
(* and storage errors.  An INSERT of storeEvent may throw; the statements   *)
(* run in autocommit mode, so the ones before it have taken effect.         *)

PB1 == Ev(25, "p1", 12, 49999, << << "d", "D" >> >>)

PB2 == Ev(26, "p1", 12, 49999, << << "d", "D" >>, << "k", "abc" >> >>)

PB3 == Ev(27, "p1", 12, 49999, << << "d", "D" >>, << "k", "39999" >> >>)

Faults == { "none", "events", "tags" }

FaultInputs ==
    Valid({ N2, R1, R3, S1, P1, PB1, PB2, PB3 })
        \cup { Raw(N1, "invalid: signature verification failed") }

NextFault ==
    \/ \E ws \in Conns : Open(ws)
    \/ \E raw \in FaultInputs : RecvEvent("c1", raw)
    \/ \E fault \in Faults : ResumeEvent(fault)
    \/ \E ws \in Conns : Req(ws, "s1", << ByKind1 >>)
    \/ ChangesSub("c2", "f", AllChanges)

SpecFault == Fresh(MaxStoreFrames) /\ [][NextFault]_vars

(* C16: an event whose ingest is answered OK false (failed validation, bad   *)
(* purge payload or storage error) is not stored, has no row in the tag      *)
(* index and is sent to no subscription as EVENT or CHANGES_EVENT; the       *)
(* registry of connections and subscriptions is unchanged.                   *)
C16_RejectedLeavesNoTrace ==
    [][ (last'.op = "EVENT" /\ ~last'.success) =>
           /\ \A r \in events' : r.event.id # last'.event.id
           /\ \A t \in event_tags' : t.event_id # last'.event.id
           /\ \A c \in Conns : \A k \in (Len(out[c]) + 1)..Len(out'[c]) :
                 out'[c][k].t \notin { "EVENT", "CHANGES_EVENT" }
           /\ clients' = clients ]_vars

-----------------------------------------------------------------------------
(* The CHANGES command *)

ChangesInputs ==
    { AllChanges,
      ClientOptions(Some(1), Some(0), {}, {}),
      ClientOptions(None, Some(1), {}, {}),
      ClientOptions(None, Some(2), { 10000, 1 }, {}),
      ClientOptions(Some(1), None, {}, { "p2" }),
      ClientOptions(None, None, { 1 }, { "p1" }) }

NextChanges ==
    \/ Open("c1")
    \/ \E raw \in Valid({ R1, R3, N2, S1, P1 }) : RecvEvent("c1", raw)
    \/ ResumeEvent("none")
    \/ \E opts \in ChangesInputs : Changes("c1", opts)

SpecChanges == Fresh(MaxStoreFrames) /\ [][NextChanges]_vars

\* the stored rows with seq > since whose kind and pubkey are in the given
\* sets (an empty set is no constraint)
Matching(since, kinds, authors) ==
    { r \in events :
        /\ r.seq > since
        /\ kinds = {} \/ r.event.kind \in kinds
        /\ authors = {} \/ r.event.pubkey \in authors }

\* queryChanges without a limit returns exactly the matching rows, each with
\* the seq it was assigned, in strictly ascending seq order
ChangesExact ==
    \A since \in 0..3, kinds \in SUBSET { 1, 10000 }, authors \in SUBSET { "p1", "p2" } :
        LET res == queryChanges(DB, since, ChangesOptions(None, kinds, authors)).changes
        IN  /\ Range(res) = Matching(since, kinds, authors)
            /\ \A i \in 1..Len(res) : \E k \in 1..Len(assigned) : assigned[k] = res[i]
            /\ \A i, j \in 1..Len(res) : i < j => res[i].seq < res[j].seq

(* C17: queryChanges(since, {kinds, authors}) without a limit returns        *)
(* exactly the stored events with seq > since and kind and pubkey in the     *)
(* given sets, each with its assigned seq, in strictly ascending seq order;  *)
(* and an event stored by an insert is in queryChanges(s, {}) for the value  *)
(* s that getLastSeq() had before the insert.                                *)
C17_QueryChangesExact ==
    /\ []ChangesExact
    /\ [][ (last'.op = "EVENT" /\ last'.success /\ IsSome(last'.seq)) =>
              \E k \in 1..Len(queryChanges(DB', getLastSeq(DB),
                                           ChangesOptions(None, {}, {})).changes) :
                  queryChanges(DB', getLastSeq(DB), ChangesOptions(None, {}, {})).changes[k]
                      = [ seq |-> last'.seq[1], event |-> last'.event ] ]_vars

\* a CHANGES without limit, restricted to an author, has just returned one
\* of several stored events
C17_Witness ==
    /\ last.op = "CHANGES"
    /\ ~IsSome(last.opts.limit)
    /\ last.opts.authors # {}
    /\ Len(Emitted("c1")[1].list) = 1
    /\ Cardinality(events) >= 2

\* the seqs a CHANGES with options opts has to return: the matching rows in
\* ascending seq order, cut to the limit if one is given
DueSeqs(opts) ==
    LET rows == SortRows(Matching(sinceSeqOf(opts), opts.kinds, opts.authors))
        cut == IF IsSome(opts.limit) THEN Limit(rows, opts.limit[1]) ELSE rows
    IN  [ i \in 1..Len(cut) |-> cut[i].seq ]

(* C18: for every non-negative limit in the options of a CHANGES command,    *)
(* 0 included, the response holds at most limit changes, those with the      *)
(* smallest seqs greater than since among the matching events.               *)
C18_ChangesLimit ==
    (last.op = "CHANGES" /\ IsSome(last.opts.limit) /\ last.opts.limit[1] >= 0) =>
        /\ Len(Emitted(last.ws)[1].list) <= last.opts.limit[1]
        /\ Emitted(last.ws)[1].list = DueSeqs(last.opts)

-----------------------------------------------------------------------------
(* C20: the lastSeq carried by the CHANGES_EOSE of a CHANGES_SUB is          *)
(* getLastSeq() at the end of the replay, whatever since, kinds and authors  *)
(* are, also when the replay delivered events and events that do not match   *)
(* are stored with higher seqs.                                              *)
C20_EoseCarriesGlobalLastSeq ==
    last.op = "CHANGES_SUB" =>
        \A k \in 1..Len(Emitted(last.ws)) :
            Emitted(last.ws)[k].t = "CHANGES_EOSE" =>
                Emitted(last.ws)[k].seq = getLastSeq(DB)

-----------------------------------------------------------------------------
(* Purge payloads *)

PK49999 == Ev(28, "p1", 12, 49999, << << "d", "D" >>, << "k", "49999" >> >>)

PX == Ev(29, "p1", 12, 49999, << << "d", "D" >>, << "k", "40001x" >> >>)

PE == Ev(30, "p1", 12, 49999, << << "d", "" >>, << "k", "40001" >> >>)

PurgeInputs == { P1, PB1, PB2, PB3, PK49999, PX, PE }

NextPurge ==
    \/ Open("c1")
    \/ \E raw \in Valid(PurgeInputs \cup { S1 }) : RecvEvent("c1", raw)
    \/ ResumeEvent("none")
    \/ ChangesSub("c1", "f", AllChanges)

SpecPurge == Fresh(MaxStoreFrames) /\ [][NextPurge]_vars

\* event e has a tag named name
HasTag(e, name) ==
    \E i \in 1..Len(e.tags) : Len(e.tags[i]) >= 1 /\ e.tags[i][1] = name

\* e has a k tag whose value parses to an integer in 40000-49998
TargetKindInRange(e) ==
    /\ IsSome(FirstTagValue(e, "k"))
    /\ FirstTagValue(e, "k")[1] \in DOMAIN Chars
    /\ IsSome(parseInt(FirstTagValue(e, "k")[1]))
    /\ parseInt(FirstTagValue(e, "k")[1])[1] >= 40000
    /\ parseInt(FirstTagValue(e, "k")[1])[1] <= 49998

\* the step that handles the valid purge event at the head of the queue
\* processes it if ok holds and rejects it without effect otherwise
PurgeProcessedIff(ok) ==
    (/\ pending # << >>
     /\ last'.op = "EVENT"
     /\ ~IsSome(validateEvent(Head(pending).raw))
     /\ isPurgeKind(Head(pending).raw.event.kind)) =>
        LET e == Head(pending).raw.event
        IN  IF ok
              THEN /\ last'.success
                   /\ \E r \in events' : r.event = e
                   /\ ~\E r \in events' :
                         /\ r.event.pubkey = e.pubkey
                         /\ r.event.kind = parseInt(FirstTagValue(e, "k")[1])[1]
                         /\ getDTagValue(r.event) = FirstTagValue(e, "d")
            ELSE /\ ~last'.success
                 /\ events' = events
                 /\ event_tags' = event_tags
                 /\ \A c \in Conns : \A k \in (Len(out[c]) + 1)..Len(out'[c]) :
                       out'[c][k].t \notin { "EVENT", "CHANGES_EVENT" }

-----------------------------------------------------------------------------
\* the index entries an event is due: one for each of its tags whose name is
\* a single ASCII letter and which has a value in second position
DueTagRows(e) ==
    { [ event_id |-> e.id, ord |-> i, tag_name |-> e.tags[i][1],
        tag_value |-> e.tags[i][2] ] :
      i \in { j \in 1..Len(e.tags) :
                Len(e.tags[j]) >= 2 /\ e.tags[j][1] \in SingleLetters } }

(* C22: in every reachable state the tag index holds exactly one entry for   *)
(* each indexable tag of each stored event and no entry of an event that is  *)
(* not stored (so a deleted event's entries are gone with it).               *)
C22_TagIndexExact ==
    /\ \A e \in StoredEvents(DB) : DueTagRows(e) \subseteq event_tags
    /\ \A t \in event_tags :
          \E e \in StoredEvents(DB) : e.id = t.event_id /\ t \in DueTagRows(e)

-----------------------------------------------------------------------------
(* Queries: the stored replay of a REQ against the in-memory matcher *)

T1 == Ev(33, "p2", 10, 1, << << "ab", "x" >>, << "E", "x" >>, << "e", "" >> >>)

QueryEvents == { N1, N2, A4, A5, S1, T1 }

TagFilters ==
    { NoTags,
      [ x \in { "e" } |-> { "x" } ],
      [ x \in { "e" } |-> {} ],
      [ x \in { "E" } |-> { "x" } ],
      [ x \in { "d" } |-> { "b", "D" } ],
      [ x \in { "d", "i" } |-> IF x = "d" THEN { "D", "a" } ELSE { "", "1-aa" } ] }

\* the filters without limit that the properties range over
QueryFilters ==
    { Filter(sets[1], sets[2], sets[3], span[1], span[2], None, tags) :
        sets \in { << {}, {}, {} >>, << { N1.id, T1.id }, {}, {} >>, << {}, { "p2" }, {} >>,
                   << {}, {}, { 1, 30000 } >>, << { N1.id, T1.id }, { "p2" }, { 1, 30000 } >> },
        span \in { << None, None >>, << Some(11), None >>, << None, Some(10) >> },
        tags \in TagFilters }

ByKind1Limit(n) == Filter({}, {}, { 1 }, None, None, Some(n), NoTags)

\* the filters of the REQ sent under each subscription id
QueryFiltersOf(subscriptionId) ==
    CASE subscriptionId = "q1" -> << ByKind1, ByAuthorP1 >>
      [] subscriptionId = "q2" -> << DocFilter(30000, "b") >>
      [] subscriptionId = "q3" -> << ByKind1Limit(1), DocFilter(40001, "D") >>
      [] OTHER -> << ByKind1Limit(0) >>

NextQuery ==
    \/ Open("c1")
    \/ \E raw \in Valid(QueryEvents) : RecvEvent("c1", raw)
    \/ ResumeEvent("none")
    \/ \E id \in { "q1", "q2", "q3", "q4" } : Req("c1", id, QueryFiltersOf(id))

SpecQuery == Fresh(MaxStoreFrames) /\ [][NextQuery]_vars

MatchedIds(filters) == { e.id : e \in { x \in StoredEvents(DB) : matchesFilters(x, filters) } }

\* the stored events that match a filter, newest first, cut at the filter's limit
WithinLimit(f) ==
    LET rows == SortEvents({ e \in StoredEvents(DB) : matchesFilter(e, f) })
    IN  IF IsSome(f.limit) THEN Range(Limit(rows, f.limit[1])) ELSE Range(rows)

DueReplayIds(filters) ==
    { e.id : e \in UNION { WithinLimit(filters[i]) : i \in 1..Len(filters) } }

ValidReq ==
    /\ last.op = "REQ"
    /\ Len(last.sub) \in 1..64
    /\ Len(last.filters) > 0
    /\ \A i \in 1..Len(last.filters) : ~IsSome(validateFilter(last.filters[i]))

\* what the REQ just handled emitted: EVENT frames for exactly the events `due`,
\* one each, all under the subscription id, then one EOSE, and nothing else
ReplayThenEose(due) ==
    LET F == Emitted(last.ws)
        n == Len(F)
    IN  /\ n = Cardinality(due) + 1
        /\ F[n] = EoseFrame(last.sub)
        /\ \A k \in 1..(n - 1) : F[k].t = "EVENT" /\ F[k].sub = last.sub
        /\ { F[k].id : k \in 1..(n - 1) } = due
        /\ \A c \in Conns \ { last.ws } : Emitted(c) = << >>

(* C24 as stated: a valid REQ emits one EVENT frame per stored event that    *)
(* matches the filters, all under its subscription id, then exactly one EOSE.*)
C24_ReplayAllMatching ==
    ValidReq => ReplayThenEose(MatchedIds(last.filters))

(* C24: a valid REQ emits one EVENT frame per stored event that matches one  *)
(* of the filters within that filter's limit (newest first), all under its   *)
(* subscription id, then exactly one EOSE, and nothing after it.             *)
C24_ReplayWithinLimit ==
    ValidReq => ReplayThenEose(DueReplayIds(last.filters))

\* two kind-1 events are stored and a REQ with limit 1 replayed the newer one
C24_Witness ==
    /\ ValidReq /\ last.sub = "q3"
    /\ { N1, N2 } \subseteq StoredEvents(DB)
    /\ Emitted("c1") = << EventFrame("q3", N2), EoseFrame("q3") >>

-----------------------------------------------------------------------------
(* The subscription registry: REQ, CLOSE, CHANGES_SUB, CHANGES_UNSUB and     *)
(* the end of a connection                                                   *)

NegativeLimit == Filter({}, {}, { 1 }, None, None, Some(-1), NoTags)

TwoLetterTag == Filter({}, {}, {}, None, None, None, [ x \in { "ab" } |-> { "x" } ])

\* a subscription id of 65 characters
Long65 == "sssssssssssssssssssssssssssssssssssssssssssssssssssssssssssssssss"

\* the REQ messages sent: subscription id and filters
ReqInputs ==
    { << "s1", << ByKind1 >> >>, << "s1", << ByAuthorP1 >> >>,
      << "s1", << ByKind1, NegativeLimit >> >>, << "s1", << TwoLetterTag >> >>,
      << "", << ByKind1 >> >>, << Long65, << ByKind1 >> >> }

NextReq ==
    \/ \E ws \in Conns : Open(ws)
    \/ \E ws \in Conns : Disconnect(ws)
    \/ \E ws \in Conns, raw \in Valid({ N1, N2 }) : RecvEvent(ws, raw)
    \/ ResumeEvent("none")
    \/ \E req \in ReqInputs : Req("c1", req[1], req[2])
    \/ Req("c2", "s1", << ByKind1 >>)
    \/ Close("c1", "s1")
    \/ ChangesSub("c1", "s1", AllChanges)
    \/ ChangesUnsub("c1", "s1")

SpecReq == Fresh(MaxStoreFrames) /\ [][NextReq]_vars

BadFilter(f) ==
    \/ IsSome(f.limit) /\ f.limit[1] < 0
    \/ \E x \in DOMAIN f.tags : x \notin SingleLetters

InvalidReq ==
    /\ last.op = "REQ"
    /\ \/ Len(last.sub) \notin 1..64
       \/ \E i \in 1..Len(last.filters) : BadFilter(last.filters[i])

\* the only frame of the step is one CLOSED for the id with an 'invalid:' reason
OnlyClosedInvalid ==
    /\ Len(Emitted(last.ws)) = 1
    /\ Emitted(last.ws)[1].t = "CLOSED"
    /\ Emitted(last.ws)[1].sub = last.sub
    /\ SubSeq(Emitted(last.ws)[1].msg, 1, 8) = "invalid:"
    /\ \A c \in Conns \ { last.ws } : Emitted(c) = << >>

(* C25: a REQ whose subscription id is not 1-64 characters long or that has  *)
(* an invalid filter is answered with a single CLOSED frame carrying the id  *)
(* and a reason starting with 'invalid:', without EVENT or EOSE, and leaves  *)
(* the subscription maps as they were.                                       *)
C25_InvalidReqClosed ==
    [][ InvalidReq' => OnlyClosedInvalid' /\ clients' = clients ]_vars

\* a REQ under an id that is already subscribed was refused for its second
\* filter and the earlier subscription is still in place
C25_Witness ==
    /\ InvalidReq /\ last.sub = "s1" /\ last.filters = << ByKind1, NegativeLimit >>
    /\ Emitted(last.ws) =
          << ClosedFrame("s1", "invalid: limit must be a non-negative integer") >>
    /\ MapHas(clients[last.ws].subscriptions, "s1")
    /\ MapGet(clients[last.ws].subscriptions, "s1").filters = << ByAuthorP1 >>

-----------------------------------------------------------------------------
(* Subscribing again under an id, and closing it *)

N3 == Ev(34, "p2", 12, 1, << >>)

NextResub ==
    \/ \E ws \in Conns : Open(ws)
    \/ \E raw \in Valid({ N2, N3 }) : RecvEvent("c2", raw)
    \/ ResumeEvent("none")
    \/ \E filters \in { << ByKind1 >>, << ByAuthorP1 >> } : Req("c1", "s1", filters)
    \/ Req("c2", "s1", << ByKind1 >>)
    \/ Close("c1", "s1")
    \/ ChangesSub("c1", "s1", AllChanges)
    \/ ChangesUnsub("c1", "s1")

SpecResub == Init /\ [][NextResub]_vars

\* the number of subscriptions a connection holds under an id
Held(c, id) ==
    Cardinality({ i \in 1..Len(clients[c].subscriptions) :
                    clients[c].subscriptions[i].id = id })

\* the filters in force on a connection for an id
InForce(c, id) == MapGet(clients[c].subscriptions, id).filters

\* every EVENT frame of the step that handled an event is for a subscription
\* of its connection whose filters in force match the event
LiveUnderFiltersInForce ==
    last.op = "EVENT" =>
        \A c \in Conns : \A k \in 1..Len(Emitted(c)) :
            Emitted(c)[k].t = "EVENT" =>
                /\ c \in DOMAIN clients
                /\ Held(c, Emitted(c)[k].sub) = 1
                /\ matchesFilters(last.event, InForce(c, Emitted(c)[k].sub))

\* after a valid REQ the connection holds one subscription under the id, with
\* the filters of that REQ
ReqReplaces ==
    ValidReq => Held(last.ws, last.sub) = 1 /\ InForce(last.ws, last.sub) = last.filters

\* a REQ leaves the other connections' subscriptions as they were
ReqLeavesOthers ==
    last'.op = "REQ" =>
        \A c \in DOMAIN clients \ { last'.ws } : c \in DOMAIN clients' /\ clients'[c] = clients[c]

(* C26: after a second valid REQ with the same subscription id on the same   *)
(* connection only the new filters are in force for that id: the connection  *)
(* holds one subscription under the id, live events are delivered on it only *)
(* when they match the new filters, and other connections' subscriptions     *)
(* are unaffected.                                                           *)
C26_ReReqReplaces ==
    /\ [](\A c \in DOMAIN clients : Held(c, "s1") <= 1)
    /\ [](ReqReplaces /\ LiveUnderFiltersInForce)
    /\ [][ReqLeavesOthers]_vars

\* c1 subscribed s1 by kind and was replayed N2, subscribed s1 again by author
\* p1, and N3, of that kind by another author, was then accepted and not sent
\* to c1
C26_Witness ==
    /\ last.op = "EVENT" /\ last.event = N3 /\ last.success
    /\ "c1" \in DOMAIN clients /\ Held("c1", "s1") = 1
    /\ InForce("c1", "s1") = << ByAuthorP1 >>
    /\ out["c1"] = << EventFrame("s1", N2), EoseFrame("s1"), EoseFrame("s1") >>

\* every EVENT frame of a step is for a subscription its connection holds
EventOnlyIfHeld ==
    \A c \in Conns : \A k \in 1..Len(Emitted(c)) :
        Emitted(c)[k].t = "EVENT" => c \in DOMAIN clients /\ Held(c, Emitted(c)[k].sub) = 1

\* CLOSE leaves the connection without a subscription under the id
ClosedNotHeld == last.op = "CLOSE" => Held(last.ws, last.sub) = 0

\* only a REQ for the id on the connection makes it hold a subscription
OnlyReqRegisters ==
    \A c \in DOMAIN clients' : \A id \in { "s1" } :
        (Held(c, id)' = 1 /\ (c \notin DOMAIN clients \/ Held(c, id) = 0)) =>
            last'.op = "REQ" /\ last'.ws = c /\ last'.sub = id

\* CLOSE sends nothing; for an id that is not registered it changes nothing
CloseSilent ==
    last'.op = "CLOSE" =>
        /\ \A c \in Conns : Emitted(c)' = << >>
        /\ DB' = DB
        /\ Held(last'.ws, last'.sub) = 0 => clients' = clients

\* CLOSE keeps every change-feed subscription, CHANGES_UNSUB every regular one
OtherMapKept ==
    /\ last'.op = "CLOSE" =>
          \A c \in DOMAIN clients :
              clients'[c].changesSubscriptions = clients[c].changesSubscriptions
    /\ last'.op = "CHANGES_UNSUB" =>
          \A c \in DOMAIN clients : clients'[c].subscriptions = clients[c].subscriptions

(* C27: after CLOSE for a subscription id no EVENT frame carrying that id is *)
(* sent to the connection until a REQ registers the id again; CLOSE for an   *)
(* id that is not registered sends no frame and changes no state; CLOSE      *)
(* never removes a change-feed subscription and CHANGES_UNSUB never removes  *)
(* a regular subscription, even under the same id.                           *)
C27_CloseStopsDelivery ==
    /\ [](EventOnlyIfHeld /\ ClosedNotHeld)
    /\ [][OnlyReqRegisters /\ CloseSilent /\ OtherMapKept]_vars

\* c1 subscribed s1 both ways and closed the regular one; an event accepted
\* afterwards reached c1 on the change feed s1 only
C27_Witness ==
    /\ last.op = "EVENT" /\ last.success
    /\ "c1" \in DOMAIN clients /\ Held("c1", "s1") = 0
    /\ MapHas(clients["c1"].changesSubscriptions, "s1")
    /\ \E k \in 1..Len(out["c1"]) : out["c1"][k] = EoseFrame("s1")
    /\ \E k \in 1..Len(Emitted("c1")) :
          Emitted("c1")[k].sub = "s1" /\ Emitted("c1")[k].id = last.event.id
    /\ \A k \in 1..Len(Emitted("c1")) : Emitted("c1")[k].t # "EVENT"

-----------------------------------------------------------------------------
(* The end of a connection *)

\* handleDisconnect removes the socket's state and leaves every other
\* socket's state and the store as they were
DisconnectRemoves ==
    last'.op = "DISCONNECT" =>
        /\ last'.ws \notin DOMAIN clients'
        /\ DOMAIN clients' = DOMAIN clients \ { last'.ws }
        /\ \A c \in DOMAIN clients' : clients'[c] = clients[c]
        /\ DB' = DB

\* the handling of an event addresses no fan-out frame to a closed socket,
\* and no frame at all reaches one
NothingToClosed ==
    /\ (pending # << >> /\ pending' = Tail(pending)) =>
          LET p == Head(pending)
              h == handleEvent(DB, clients, p.ws, p.raw, "none")
          IN  \A c \in closed : \A k \in 1..Len(h.frames[c]) : h.frames[c][k].t = "OK"
    /\ \A c \in closed : out'[c] = out[c]

(* C28: after a connection closes all of its regular and change-feed         *)
(* subscriptions are gone: the fan-out of an event ingested later sends no   *)
(* frame to it, and the subscriptions of every other connection are as they  *)
(* were.                                                                     *)
C28_DisconnectDropsSubscriptions ==
    /\ [](closed \cap DOMAIN clients = {})
    /\ [][DisconnectRemoves /\ NothingToClosed]_vars

\* c1 and c2 subscribed s1, c1 closed, and N1, which matches every s1
\* subscription, was then accepted: c2 got it, c1 got nothing
C28_Witness ==
    /\ last.op = "EVENT" /\ last.event = N1 /\ last.success
    /\ "c1" \in closed /\ "c2" \in DOMAIN clients
    /\ \E k \in 1..Len(out["c1"]) : out["c1"][k] = EoseFrame("s1")
    /\ \A k \in 1..Len(out["c1"]) : out["c1"][k].id # N1.id
    /\ \E k \in 1..Len(Emitted("c2")) : Emitted("c2")[k] = EventFrame("s1", N1)

-----------------------------------------------------------------------------
(* The order of the responses on one connection *)

\* the socket has sent an EVENT whose handling has not resumed yet
Suspended(ws) == \E i \in 1..Len(pending) : pending[i].ws = ws

(* C29: every response frame caused by an earlier frame of a connection is   *)
(* emitted before any response frame caused by a later frame of that         *)
(* connection: no handler answers a frame of a socket while the answer to an *)
(* earlier EVENT of that socket is still to come.                            *)
C29_ResponsesInArrivalOrder ==
    (last.op \in { "REQ", "CHANGES", "LASTSEQ", "CHANGES_SUB" } /\ Emitted(last.ws) # << >>)
        => ~Suspended(last.ws)

-----------------------------------------------------------------------------
(* Frames that reach no handler *)

NotJson == Msg(FALSE, FALSE, 0, "")

MessageInputs ==
    { NotJson, Msg(TRUE, FALSE, 0, ""), Msg(TRUE, TRUE, 0, ""), Msg(TRUE, TRUE, 1, "FOO"),
      Msg(TRUE, TRUE, 1, "EVENT"), Msg(TRUE, TRUE, 3, "EVENT"), Msg(TRUE, TRUE, 2, "EVENT"),
      Msg(TRUE, TRUE, 1, "CLOSE"), Msg(TRUE, TRUE, 3, "CLOSE"), Msg(TRUE, TRUE, 2, "CLOSE"),
      Msg(TRUE, TRUE, 1, "CHANGES_UNSUB"), Msg(TRUE, TRUE, 3, "CHANGES_UNSUB"),
      Msg(TRUE, TRUE, 1, "REQ"), Msg(TRUE, TRUE, 2, "REQ"), Msg(TRUE, TRUE, 3, "REQ"),
      Msg(TRUE, TRUE, 1, "LASTSEQ") }

NextMessage ==
    \/ Open("c1")
    \/ \E msg \in MessageInputs : Notice("c1", msg)
    \/ \E raw \in Valid({ N1 }) : RecvEvent("c1", raw)
    \/ ResumeEvent("none")
    \/ Req("c1", "s1", << ByKind1 >>)
    \/ ChangesSub("c1", "s1", AllChanges)
    \/ LastSeq("c1")

SpecMessage == Fresh(MaxStoreFrames) /\ [][NextMessage]_vars

Commands == { "EVENT", "REQ", "CLOSE", "CHANGES", "LASTSEQ", "CHANGES_SUB", "CHANGES_UNSUB" }

\* the frames the property is about
Malformed(msg) ==
    \/ ~msg.json
    \/ ~msg.array
    \/ msg.len = 0
    \/ msg.type \notin Commands
    \/ msg.type \in { "EVENT", "CLOSE", "CHANGES_UNSUB" } /\ msg.len # 2
    \/ msg.type = "REQ" /\ msg.len < 3

\* a step that answers a frame with a NOTICE sends that one frame and leaves
\* the store, the subscriptions and the suspended events as they were
OneNoticeOnly ==
    last'.op = "NOTICE" =>
        /\ \A c \in Conns :
              IF c = last'.ws
                THEN Len(Emitted(c)') = 1 /\ Emitted(c)'[1].t = "NOTICE"
              ELSE Emitted(c)' = << >>
        /\ DB' = DB
        /\ clients' = clients
        /\ last'.ws \in DOMAIN clients'
        /\ pending' = pending

(* C30: a frame that is not valid JSON, not an array, an empty array, names  *)
(* an unknown command, is an EVENT, CLOSE or CHANGES_UNSUB with other than   *)
(* two elements or a REQ with fewer than three is answered with exactly one  *)
(* NOTICE and changes neither the store nor any subscription; the connection *)
(* stays registered.                                                         *)
C30_MalformedFrameNotice ==
    /\ [](\A msg \in MessageInputs : Malformed(msg) => IsSome(handleMessage(msg)))
    /\ [][OneNoticeOnly]_vars

\* a REQ of two elements was answered with a NOTICE, and the REQ and the
\* LASTSEQ that followed on the connection were answered as usual
C30_Witness ==
    /\ last.op = "LASTSEQ"
    /\ Len(out["c1"]) = 3
    /\ out["c1"][1] =
          NoticeFrame("error: REQ message must have subscription ID and at least one filter")
    /\ out["c1"][2] = EoseFrame("s1")
    /\ Held("c1", "s1") = 1
    /\ out["c1"][3] = LastSeqFrame(0)

-----------------------------------------------------------------------------
(* Storage errors during an ingest *)

(* C31: when the insert step of an ingest fails with a storage error the     *)
(* store is left exactly as it was before the ingest began: the superseded   *)
(* event is still stored and no row or tag index entry of the failed event   *)
(* remains.                                                                  *)
C31_FailedInsertLeavesStore ==
    [][ (last'.op = "EVENT" /\ last'.valid /\ ~last'.success
            /\ SubSeq(last'.message, 1, 6) = "error:") => DB' = DB ]_vars

-----------------------------------------------------------------------------
(* A purge event submitted again *)

(* C32: a purge event whose id is already stored is treated as a duplicate   *)
(* before any purge processing: it deletes no stored event and leaves        *)
(* lastSeq as it was.                                                        *)
C32_ResubmittedPurgeDeletesNothing ==
    [][ (last'.op = "EVENT" /\ last'.valid /\ isPurgeKind(last'.event.kind)
            /\ last'.event.id \in StoredIds(DB))
          => /\ StoredIds(DB) \subseteq StoredIds(DB')
             /\ getLastSeq(DB') = getLastSeq(DB) ]_vars

-----------------------------------------------------------------------------
(* The order of ingestion of the events of one key *)

A7 == Ev(17, "p1", 10, 30000, << << "d", "b" >> >>)

A8 == Ev(18, "p1", 11, 30000, << << "d" >> >>)

\* replaceable events of one key, and addressable events with one d tag each:
\* two with the value "b", two with a d tag that has no value
OrderEvents == { R1, R2, R3, A6, A7, A4, A8 }

NextOrder ==
    \/ Open("c1")
    \/ \E raw \in Valid(OrderEvents) : RecvEvent("c1", raw)
    \/ ResumeEvent("none")
    \/ Req("c1", "s1", << DocFilter(30000, "b") >>)

SpecOrder == Fresh(MaxStoreFrames) /\ [][NextOrder]_vars

\* the d tags of an event
DTags(e) == { i \in 1..Len(e.tags) : Len(e.tags[i]) >= 1 /\ e.tags[i][1] = "d" }

\* the d of the key of an addressable event with one d tag: its value, the
\* empty string when it has none
KeyD(e) ==
    LET i == CHOOSE j \in DTags(e) : TRUE
    IN  IF Len(e.tags[i]) >= 2 THEN e.tags[i][2] ELSE ""

\* the events the property is about
Keyed(e) ==
    \/ isReplaceableKind(e.kind)
    \/ isAddressableKind(e.kind) /\ Cardinality(DTags(e)) = 1

OfOneKey(a, b) ==
    /\ Keyed(a) /\ Keyed(b)
    /\ a.pubkey = b.pubkey /\ a.kind = b.kind
    /\ isAddressableKind(a.kind) => KeyD(a) = KeyD(b)

\* greatest created_at, ties broken by the smallest id
Best(S) ==
    CHOOSE x \in S : \A y \in S :
        x.created_at > y.created_at \/ (x.created_at = y.created_at /\ x.id <= y.id)

\* the ingest of a keyed event leaves, of its key, the best of the event and
\* the events of the key stored before
KeepsBest ==
    (last'.op = "EVENT" /\ last'.valid /\ Keyed(last'.event)) =>
        LET e == last'.event
            before == { x \in StoredEvents(DB) : OfOneKey(x, e) }
        IN  { x \in StoredEvents(DB') : OfOneKey(x, e) } = { Best(before \cup { e }) }

(* C33: for events that share one replaceable key, or one addressable key    *)
(* with exactly one d tag each, the event stored after all of them have been *)
(* ingested is the same for every ingestion order: the one with the greatest *)
(* created_at, ties broken by the smallest id.  Every ingest keeps, of the   *)
(* key, the best of what was stored and the new event.                       *)
C33_StoredIsBestInAnyOrder == [][KeepsBest]_vars

-----------------------------------------------------------------------------
(* The cursor of a client that polls with CHANGES *)

\* the CHANGES frame the last step sent
ChangesReply == Emitted(last.ws)[1]

(* C34: the lastSeq returned by a CHANGES command is never smaller than the  *)
(* since the client sent, for every since and every reachable store state.   *)
C34_LastSeqNotBelowSince ==
    last.op = "CHANGES" => ChangesReply.seq >= sinceSeqOf(last.opts)

\* the options a polling client keeps fixed
PollOptions == ClientOptions(None, Some(1), { 1, 40001 }, {})

\* the lastSeq of the last CHANGES frame of a frame log, 0 when there is none
LastChangesSeq(frames) ==
    LET at == { k \in 1..Len(frames) : frames[k].t = "CHANGES" }
    IN  IF at = {} THEN 0 ELSE frames[SetMax(at)].seq

\* the client's cursor: the lastSeq it was last given
Cursor(ws) == LastChangesSeq(out[ws])

\* the CHANGES options of the client's next poll: its cursor as since
PollWith(ws) == [ PollOptions EXCEPT !.since = Some(Cursor(ws)) ]

\* the client polls again only while the answer brings a change or moves
\* its cursor
PollDue(ws) ==
    LET page == queryChanges(DB, Cursor(ws),
                    ChangesOptions(PollOptions.limit, PollOptions.kinds,
                                   PollOptions.authors))
    IN  page.changes # << >> \/ page.lastSeq # Cursor(ws)

\* the client sends CHANGES with its cursor as since
Poll(ws) ==
    /\ ws \in DOMAIN clients
    /\ PollDue(ws)
    /\ last' = DidOpts("CHANGES", ws, "", PollWith(ws))
    /\ Send(Only(ws, handleChanges(DB, clients, ws, PollWith(ws)).frames))
    /\ UnchangedStore
    /\ UNCHANGED << clients, closed, pending, nframes, budget >>

NextPoll ==
    \/ Open("c1")
    \/ \E raw \in Valid({ N1, S1, P1 }) : RecvEvent("c1", raw)
    \/ ResumeEvent("none")
    \/ Poll("c1")

\* the client keeps polling: a poll that is due is eventually sent
SpecPoll == Fresh(MaxStoreFrames) /\ [][NextPoll]_vars /\ WF_vars(Poll("c1"))

MatchesPoll(e) == e.kind \in PollOptions.kinds

\* no stored matching row with a seq after since and up to the returned
\* lastSeq is missing from the returned changes
NoneSkipped ==
    (last.op = "CHANGES" /\ IsSome(last.opts.limit) /\ last.opts.limit[1] >= 1) =>
        \A r \in events :
            (/\ last.opts.kinds # {} => r.event.kind \in last.opts.kinds
             /\ last.opts.authors # {} => r.event.pubkey \in last.opts.authors
             /\ r.seq > sinceSeqOf(last.opts)
             /\ r.seq <= ChangesReply.seq)
                => \E k \in 1..Len(ChangesReply.list) : ChangesReply.list[k] = r.seq

\* the client has been given the row of e in some CHANGES frame
Returned(ws, e) ==
    \E i \in 1..Len(assigned) :
        /\ assigned[i].event = e
        /\ \E k \in 1..Len(out[ws]) :
              /\ out[ws][k].t = "CHANGES"
              /\ \E j \in 1..Len(out[ws][k].list) : out[ws][k].list[j] = assigned[i].seq

\* every stored matching row has been given to the client
CaughtUp(ws) ==
    \A r \in events :
        MatchesPoll(r.event) =>
            \E k \in 1..Len(out[ws]) :
                /\ out[ws][k].t = "CHANGES"
                /\ \E j \in 1..Len(out[ws][k].list) : out[ws][k].list[j] = r.seq

(* C35: a client that polls CHANGES with fixed kinds and authors and a limit *)
(* of at least 1, feeding each returned lastSeq back as since, never skips a *)
(* matching event: no stored matching event with a seq in (since, lastSeq]   *)
(* is missing from the answer, and again and again every matching event that *)
(* is stored has been returned, so one that stays stored is returned.        *)
C35_PollingSkipsNothing == []NoneSkipped /\ []<>CaughtUp("c1")

\* the client polled with the cursor 1 it had been given and was returned
\* the next matching event, stored in between, a non-matching one lying between
C35_Witness ==
    /\ last.op = "CHANGES" /\ last.opts.since = Some(1)
    /\ Len(assigned) = 3 /\ ~MatchesPoll(assigned[2].event)
    /\ ChangesReply.list = << 3 >>
    /\ Returned("c1", assigned[1].event)

-----------------------------------------------------------------------------
(* A connection that closes while its EVENT is being validated *)

NextGone ==
    \/ \E ws \in Conns : Open(ws)
    \/ Disconnect("c2")
    \/ \E raw \in Valid({ N1, N2 }) : RecvEvent("c2", raw)
    \/ ResumeEvent("none")
    \/ \E ws \in Conns : Req(ws, "s1", << ByKind1 >>)
    \/ Req("c1", "s2", << ByAuthorP1 >>)
    \/ ChangesSub("c1", "f", AllChanges)

SpecGone == Init /\ [][NextGone]_vars

\* the frames of type t among frames
OfType(frames, t) == SelectSeq(frames, LAMBDA f : f.t = t)

\* frames holds what the fan-out of event e with seq owes a connection in
\* state st: one EVENT on its first matching regular subscription, if any,
\* and one CHANGES_EVENT with the seq on every matching change-feed
\* subscription, and nothing else
FannedOut(frames, st, e, seq) ==
    LET hit == { i \in 1..Len(st.subscriptions) :
                   matchesFilters(e, st.subscriptions[i].filters) }
    IN  /\ \A k \in 1..Len(frames) : frames[k].t \in { "EVENT", "CHANGES_EVENT" }
        /\ Len(OfType(frames, "EVENT")) = (IF hit = {} THEN 0 ELSE 1)
        /\ \A k \in 1..Len(frames) :
              frames[k].t = "EVENT" =>
                  /\ frames[k].id = e.id
                  /\ \E i \in hit : /\ st.subscriptions[i].id = frames[k].sub
                                     /\ \A j \in hit : i <= j
        /\ \A i \in 1..Len(st.changesSubscriptions) :
              LET cs == st.changesSubscriptions[i]
                  mine == SelectSeq(frames, LAMBDA f :
                              f.t = "CHANGES_EVENT" /\ f.sub = cs.id)
              IN  IF /\ cs.options.kinds # {} => e.kind \in cs.options.kinds
                     /\ cs.options.authors # {} => e.pubkey \in cs.options.authors
                    THEN /\ Len(mine) = 1
                         /\ mine[1].id = e.id /\ mine[1].seq = seq
                  ELSE mine = << >>

\* the step ends the validation of a valid event whose connection has closed
\* in the meantime: an event of a regular kind that is not stored yet is
\* stored with a new seq and fanned out to the other connections, and the
\* closed connection is sent nothing
GoneStillCommits ==
    (last'.op = "EVENT" /\ last'.valid /\ last'.ws \in closed) =>
        LET e == last'.event
        IN  /\ out'[last'.ws] = out[last'.ws]
            /\ (isRegularKind(e.kind) /\ e.id \notin StoredIds(DB)) =>
                  /\ last'.success /\ IsSome(last'.seq)
                  /\ last'.seq[1] > getLastSeq(DB)
                  /\ events' = events \cup { [ seq |-> last'.seq[1], event |-> e ] }
                  /\ \A c \in DOMAIN clients :
                        FannedOut(SubSeq(out'[c], Len(out[c]) + 1, Len(out'[c])),
                                  clients[c], e, last'.seq[1])

(* C36: if a connection closes while its EVENT command is still being        *)
(* validated, the event is nonetheless stored with a seq and fanned out to   *)
(* the matching regular and change-feed subscriptions of all other           *)
(* connections, and no frame for it is produced for the closed connection.   *)
C36_ClosedSenderStillCommits == [][GoneStillCommits]_vars

\* c2 subscribed to kind 1, sent N1 and closed before the validation ended;
\* N1 has seq 1 and went to c1's regular and change-feed subscriptions, and
\* c2 holds nothing but the EOSE of its own subscription
C36_Witness ==
    /\ last.op = "EVENT" /\ last.ws = "c2" /\ "c2" \in closed
    /\ events = { [ seq |-> 1, event |-> N1 ] }
    /\ Emitted("c1") = << EventFrame("s1", N1), ChangesEventFrame("f", 1, N1) >>
    /\ out["c2"] = << EoseFrame("s1") >>

-----------------------------------------------------------------------------
(* The OK frame of an EVENT command *)

\* an event that fails validation, events of three retention classes and a
\* purge without k tag
OkInputs ==
    Valid({ N2, R1, R3, PB1 }) \cup { Raw(N1, "invalid: signature verification failed") }

NextOk ==
    \/ Open("c1")
    \/ \E raw \in OkInputs : RecvEvent("c1", raw)
    \/ \E fault \in Faults : ResumeEvent(fault)
    \/ Req("c1", "s1", << ByKind1 >>)
    \/ ChangesSub("c1", "f", AllChanges)

SpecOk == Fresh(MaxStoreFrames) /\ [][NextOk]_vars

\* string s begins with the string p
StartsWith(s, p) == Len(s) >= Len(p) /\ SubSeq(s, 1, Len(p)) = p

\* the step handled an EVENT command: the submitter is sent one OK, as the
\* first frame of the step, with the id of the event and accepted as the
\* reason tells; no other connection is sent an OK
OneOkFirst ==
    last'.op = "EVENT" =>
        \A c \in Conns :
            LET new == SubSeq(out'[c], Len(out[c]) + 1, Len(out'[c]))
            IN  IF c = last'.ws
                  THEN /\ Len(OfType(new, "OK")) = 1
                       /\ new[1].t = "OK"
                       /\ new[1].id = last'.event.id
                       /\ ~new[1].ok <=> \/ StartsWith(new[1].msg, "invalid:")
                                         \/ StartsWith(new[1].msg, "error:")
                       /\ new[1].ok <=> \/ new[1].msg = ""
                                        \/ StartsWith(new[1].msg, "duplicate:")
                ELSE OfType(new, "OK") = << >>

(* C37: every EVENT command with exactly two elements is answered with       *)
(* exactly one OK frame to the submitting connection, carrying the event's   *)
(* id; accepted is false exactly when the reason starts with 'invalid:' or   *)
(* 'error:', and true exactly when the reason is empty or starts with        *)
(* 'duplicate:'; the OK precedes every EVENT and CHANGES_EVENT frame for the *)
(* same event sent to the submitter.                                         *)
C37_OneOkBeforeFanOut == [][OneOkFirst]_vars

\* c1 holds a regular and a change-feed subscription that match its own
\* event N2: the OK comes first, the deliveries after it
C37_Witness ==
    /\ last.op = "EVENT" /\ last.ws = "c1" /\ last.event = N2
    /\ Len(Emitted("c1")) >= 3
    /\ Emitted("c1")[1] = OkFrame(32, TRUE, "")
    /\ \E k \in 2..Len(Emitted("c1")) : Emitted("c1")[k].t = "EVENT"
    /\ \E k \in 2..Len(Emitted("c1")) : Emitted("c1")[k].t = "CHANGES_EVENT"

-----------------------------------------------------------------------------
(* The result list of a query and the limit of a filter *)

\* the filters the lists of a REQ are made of
ListFilters ==
    { ByKind1, ByAuthorP1, DocFilter(30000, "b"), DocFilter(40001, "D"),
      ByKind1Limit(0), ByKind1Limit(1), ByKind1Limit(2) }

\* the filter lists of one and of two filters
QueryLists ==
    { << f >> : f \in ListFilters } \cup { << f, g >> : f, g \in ListFilters }

\* a comes before b in (created_at desc, id asc) order
StrictlyBefore(a, b) ==
    a.created_at > b.created_at \/ (a.created_at = b.created_at /\ a.id < b.id)

\* the list holds stored events, none twice, every stored event that a
\* limit-free filter of the list matches, newest first and by id within
\* one created_at
UnionInOrder(found, filters) ==
    /\ \A i \in 1..Len(found) : found[i] \in StoredEvents(DB)
    /\ \A i, j \in 1..Len(found) : i < j => found[i].id # found[j].id
    /\ \A e \in StoredEvents(DB) :
          (\E k \in 1..Len(filters) :
              ~IsSome(filters[k].limit) /\ matchesFilter(e, filters[k]))
            => \E i \in 1..Len(found) : found[i] = e
    /\ \A i, j \in 1..Len(found) : i < j => StrictlyBefore(found[i], found[j])

\* the EVENT frames of the REQ just handled carry the result list in its order
ReplayIsQuery ==
    ValidReq =>
        LET found == queryEvents(DB, last.filters)
            F == Emitted(last.ws)
        IN  /\ Len(F) = Len(found) + 1
            /\ \A k \in 1..Len(found) : F[k] = EventFrame(last.sub, found[k])

(* C38: query(filters) returns each stored event at most once even when      *)
(* several filters of the same REQ match it, returns every stored event      *)
(* matched by at least one limit-free filter, and orders the returned list   *)
(* by created_at descending with ties broken by ascending id.                *)
C38_QueryUnionOnceInOrder ==
    /\ \A filters \in QueryLists : UnionInOrder(queryEvents(DB, filters), filters)
    /\ ReplayIsQuery

\* N1 matches both filters of the REQ and is replayed once, before T1 of the
\* same created_at and the greater id
C38_Witness ==
    /\ ValidReq /\ last.filters = << ByKind1, ByAuthorP1 >>
    /\ matchesFilter(N1, ByKind1) /\ matchesFilter(N1, ByAuthorP1)
    /\ N1.created_at = T1.created_at
    /\ Emitted("c1") = << EventFrame("q1", N1), EventFrame("q1", T1), EoseFrame("q1") >>

\* the stored events that the conditions of filter f select, its limit aside
Selected(f) == { e \in StoredEvents(DB) : matchesFilter(e, f) }

\* part is the first n of the events of M in (created_at desc, id asc) order
FirstOf(part, M, n) ==
    /\ Len(part) = (IF n < Cardinality(M) THEN n ELSE Cardinality(M))
    /\ \A i \in 1..Len(part) : part[i] \in M
    /\ \A i, j \in 1..Len(part) : i < j => StrictlyBefore(part[i], part[j])
    /\ \A e \in M : (\A i \in 1..Len(part) : part[i] # e) =>
          \A i \in 1..Len(part) : StrictlyBefore(part[i], e)

\* what a filter with a limit contributes to the replay is the first limit
\* of the events it selects
LimitCuts ==
    \A f \in ListFilters :
        IsSome(f.limit) => FirstOf(selectFilter(DB, f), Selected(f), f.limit[1])

\* an accepted event goes to every connection that holds a subscription
\* with a matching filter, whatever the limit of the filter and whatever
\* the replay of the subscription held
LiveUnlimited ==
    (last'.op = "EVENT" /\ last'.valid /\ last'.success /\ IsSome(last'.seq)) =>
        \A c \in DOMAIN clients :
            (\E i \in 1..Len(clients[c].subscriptions) :
                \E k \in 1..Len(clients[c].subscriptions[i].filters) :
                    matchesFilter(last'.event, clients[c].subscriptions[i].filters[k]))
              => \E k \in (Len(out[c]) + 1)..Len(out'[c]) :
                    out'[c][k].t = "EVENT" /\ out'[c][k].id = last'.event.id

(* C39: for a REQ filter with limit n >= 0 the stored replay contributed by  *)
(* that filter holds at most n events (none when n = 0), the first n         *)
(* matching stored events in (created_at desc, id asc) order; the limit does *)
(* not restrict live delivery: matching events ingested after the EOSE are   *)
(* still delivered on the subscription.                                      *)
C39_LimitCutsReplayOnly == []LimitCuts /\ [][LiveUnlimited]_vars

\* N1 was stored when the REQ with limit 0 was answered with the EOSE alone;
\* N2, ingested afterwards, is delivered on that subscription
C39_Witness ==
    /\ last.op = "EVENT" /\ last.event = N2 /\ last.success
    /\ Len(assigned) = 2 /\ assigned[1].event = N1
    /\ MapHas(clients["c1"].subscriptions, "q4")
    /\ SubSeq(out["c1"], 1, 3) = << OkFrame(N1.id, TRUE, ""), EoseFrame("q4"),
                                      OkFrame(N2.id, TRUE, "") >>
    /\ out["c1"][4] = EventFrame("q4", N2)

=============================================================================
